---- MODULE Spec2Model ----
(***************************************************************************)
(* Model of the blog application's content query pipeline:                 *)
(*   BlogService (core/services/blog.service.ts), the post store and its   *)
(*   lookup helpers (core/data/blog-mock.data.ts) and the pagination of    *)
(*   CategoriaService (core/services/categoria.service.ts).                *)
(*                                                                         *)
(* Strings are sequences of one-character strings, so that toLowerCase,    *)
(* String.includes and the < / > comparison of strings are computed.       *)
(* A Date is the integer yyyymmdd of its day; the order of two dates is    *)
(* the order of their getTime() values as long as the days differ, which   *)
(* they do for every post of the store.                                    *)
(***************************************************************************)
EXTENDS Integers, Sequences, FiniteSets, TLC

VARIABLES
    store,          \* BLOG_POSTS_MOCK: the mutable fields (views, likes) of each post
    now,            \* Date.now()
    postsCache,     \* BlogService._postsCache: cache key -> filtered and sorted list
    lastFetchTime,  \* BlogService._lastFetchTime: cache key -> Date.now() of the computation
    loadingState,   \* BlogService._loadingState
    currentFilters, \* BlogService._currentFilters (BehaviorSubject)
    currentPage,    \* BlogService._currentPage (BehaviorSubject)
    pending,        \* requests waiting in their delay(), in call order
    calls,          \* history: number of getPosts calls made
    runs,           \* history: number of executions of the filter/sort pipeline by getPosts
    mutations,      \* history: number of incrementViews / toggleLike completions
    lastResp,       \* history: the last response getPosts delivered
    missResp,       \* history: per key, the response of the miss that filled the entry
    delivered,      \* history: per key, the data of the last response delivered
    lastRead,       \* history: the posts delivered by the last read operation
    filterIO,       \* filter stage on its own: input and output
    pageIO,         \* pagination descriptors on their own: input and output
    stageIO,        \* filter and sort stages of both services on their own
    categoriesCache,    \* CategoriaService._categoriesCache: <<>> for null, <<list>>
    lastCacheTime,      \* CategoriaService._lastCacheTime
    catLoading,         \* CategoriaService._loading
    catError,           \* CategoriaService._error
    catRead,            \* history: the last value a CategoriaService read emitted
    cleared,            \* history: per service, clearCache ran and no list read completed since
    swCache,        \* service worker: Cache Storage, cache name -> url -> stored response
    swInstalled,    \* service worker: the install event has been handled
    swFetches,      \* history: number of fetch(request) calls made by the fetch handlers
    swResp,         \* history: what the last fetch event resolved to
    bookmarks,      \* BookmarkService._bookmarks
    bmStorage,      \* localStorage[STORAGE_KEY]: <<>> when absent, <<list>>
    bookmarkChanges,    \* BookmarkService.bookmarkChanges$: the last value emitted
    bmHist,         \* history: the last operation of BookmarkService and its result
    comment,        \* BlogCommentsComponent: the comment the user votes on
    commentLiked,   \* BlogCommentsComponent.commentLiked: the events emitted
    comments,       \* BlogCommentsComponent._comments
    submitting,     \* BlogCommentsComponent._submitting
    formValid,      \* BlogCommentsComponent.commentForm.valid
    timers,         \* BlogCommentsComponent: callbacks waiting in setTimeout
    commentSubmitted,   \* BlogCommentsComponent.commentSubmitted: the events emitted
    submitHist      \* history: accepted and rejected onSubmitComment calls

vars == <<store, now, postsCache, lastFetchTime, loadingState, currentFilters,
          currentPage, pending, calls, runs, mutations, lastResp,
          missResp, delivered, lastRead, filterIO, pageIO, stageIO,
          categoriesCache, lastCacheTime, catLoading, catError, catRead, cleared,
          swCache, swInstalled, swFetches, swResp,
          bookmarks, bmStorage, bookmarkChanges, bmHist, comment, commentLiked,
          comments, submitting, formValid, timers, commentSubmitted, submitHist>>

serviceVars == <<store, now, postsCache, lastFetchTime, loadingState, currentFilters,
                 currentPage, pending, calls, runs, mutations, lastResp,
                 missResp, delivered>>

catVars == <<categoriesCache, lastCacheTime, catLoading, catError, catRead, cleared>>

swVars == <<swCache, swInstalled, swFetches, swResp>>

\* What the operations of BlogService leave alone besides their own state.
bmVars == <<bookmarks, bmStorage, bookmarkChanges, bmHist>>

voteVars == <<comment, commentLiked>>

submitVars == <<comments, submitting, formValid, timers, commentSubmitted, submitHist>>

uiVars == <<bmVars, voteVars, submitVars>>

extraVars == <<stageIO, catVars, swVars, uiVars>>

None == "none"

(***************************************************************************)
(* Bounds of the model.                                                    *)
(***************************************************************************)
MaxPage == 2
MaxPageSize == 2
MaxCalls == 2
MaxInFlight == 2
MaxMutations == 1
MaxTicks == 2
TicksPerTTL == 2

(***************************************************************************)
(* Strings.                                                                *)
(***************************************************************************)
UpperCase == <<"A", "B", "C", "D", "E", "F", "G", "H", "I", "J", "K", "L", "M",
               "N", "O", "P", "Q", "R", "S", "T", "U", "V", "W", "X", "Y", "Z">>
LowerCase == <<"a", "b", "c", "d", "e", "f", "g", "h", "i", "j", "k", "l", "m",
               "n", "o", "p", "q", "r", "s", "t", "u", "v", "w", "x", "y", "z">>

\* UTF-16 code unit order of the characters used: space, digits, upper, lower.
CharOrder == <<" ", "0", "1", "2", "3", "4", "5", "6", "7", "8", "9">>
             \o UpperCase \o LowerCase

Code(c) == CHOOSE i \in 1..Len(CharOrder) : CharOrder[i] = c

LowerChar(c) ==
    IF \E i \in 1..Len(UpperCase) : UpperCase[i] = c
    THEN LowerCase[CHOOSE i \in 1..Len(UpperCase) : UpperCase[i] = c]
    ELSE c

\* String.prototype.toLowerCase
ToLowerCase(s) == [i \in 1..Len(s) |-> LowerChar(s[i])]

\* String.prototype.includes
Includes(s, t) ==
    \E i \in 0..(Len(s) - Len(t)) : SubSeq(s, i + 1, i + Len(t)) = t

\* a < b on strings: the first differing code unit decides, a proper prefix is less.
RECURSIVE StrLess(_, _)
StrLess(a, b) ==
    IF b = <<>> THEN FALSE
    ELSE IF a = <<>> THEN TRUE
    ELSE IF a[1] # b[1] THEN Code(a[1]) < Code(b[1])
    ELSE StrLess(Tail(a), Tail(b))

\* Array.prototype.some / includes on sequences
SeqIncludes(s, x) == \E i \in 1..Len(s) : s[i] = x

Range(s) == {s[i] : i \in 1..Len(s)}

(***************************************************************************)
(* The post store.  Four posts stand for BLOG_POSTS_MOCK: post-1, post-4   *)
(* and post-8 with the field values of the source (post-4 and post-8 have  *)
(* the same view count there), each text cut to one word, and post-21, a   *)
(* post in status 'draft' as BlogPostStatus allows.                        *)
(***************************************************************************)
sAngular == <<"a", "n", "g", "u", "l", "a", "r">>
sFrontend == <<"f", "r", "o", "n", "t", "e", "n", "d">>
sSecurity == <<"s", "e", "c", "u", "r", "i", "t", "y">>
sPython == <<"p", "y", "t", "h", "o", "n">>
sAi == <<"a", "i">>

BLOG_POSTS_MOCK == <<"post-1", "post-4", "post-8", "post-21">>

PostIds == Range(BLOG_POSTS_MOCK)

PostData ==
    [id \in PostIds |->
        CASE id = "post-1" ->
               [id |-> id, slug |-> "guia-completa-angular-18",
                title |-> <<"G", "u", "i", "a", " ", "A", "n", "g", "u", "l", "a", "r">>,
                excerpt |-> <<"D", "e", "s", "c", "u", "b", "r", "e">>,
                status |-> "published", authorId |-> "autor-1",
                categoryIds |-> <<"categoria-1", "categoria-7">>,
                tags |-> <<sAngular, sFrontend>>,
                readingTime |-> 8, commentsCount |-> 23, featured |-> TRUE,
                createdAt |-> 20240115, updatedAt |-> 20240115, publishedAt |-> 20240115]
          [] id = "post-4" ->
               [id |-> id, slug |-> "ciberseguridad-2024",
                title |-> <<"C", "i", "b", "e", "r">>,
                excerpt |-> <<"A", "n", "a", "l", "i", "s", "i", "s">>,
                status |-> "published", authorId |-> "autor-5",
                categoryIds |-> <<"categoria-4">>,
                tags |-> <<sSecurity>>,
                readingTime |-> 10, commentsCount |-> 28, featured |-> FALSE,
                createdAt |-> 20240105, updatedAt |-> 20240105, publishedAt |-> 20240105]
          [] id = "post-8" ->
               [id |-> id, slug |-> "tensorflow-deep-learning",
                title |-> <<"T", "e", "n", "s", "o", "r">>,
                excerpt |-> <<"I", "n", "i", "c", "i", "a">>,
                status |-> "published", authorId |-> "autor-4",
                categoryIds |-> <<"categoria-2", "categoria-10">>,
                tags |-> <<sPython, sAi>>,
                readingTime |-> 14, commentsCount |-> 26, featured |-> FALSE,
                createdAt |-> 20231220, updatedAt |-> 20231220, publishedAt |-> 20231220]
          [] OTHER ->
               [id |-> id, slug |-> "borrador-angular",
                title |-> <<"B", "o", "r", "r", "a", "d", "o", "r">>,
                excerpt |-> <<"A", "n", "g">>,
                status |-> "draft", authorId |-> "autor-1",
                categoryIds |-> <<"categoria-1">>,
                tags |-> <<sAngular>>,
                readingTime |-> 5, commentsCount |-> 0, featured |-> TRUE,
                createdAt |-> 20240201, updatedAt |-> 20240201, publishedAt |-> 20240201]]

InitialCounters ==
    [id \in PostIds |->
        CASE id = "post-1" -> [views |-> 2847, likes |-> 156]
          [] id = "post-4" -> [views |-> 1876, likes |-> 134]
          [] id = "post-8" -> [views |-> 1876, likes |-> 145]
          [] OTHER -> [views |-> 0, likes |-> 0]]

\* Array.prototype.slice(start, end) with 0 <= start <= end
Slice(s, start, end) ==
    IF start >= Len(s) THEN <<>>
    ELSE SubSeq(s, start + 1, IF end > Len(s) THEN Len(s) ELSE end)

\* blog-mock.data.ts
getPostById(id) == IF id \in PostIds THEN id ELSE None

getPostBySlug(slug) ==
    IF \E i \in 1..Len(BLOG_POSTS_MOCK) : PostData[BLOG_POSTS_MOCK[i]].slug = slug
    THEN BLOG_POSTS_MOCK[CHOOSE i \in 1..Len(BLOG_POSTS_MOCK) :
             /\ PostData[BLOG_POSTS_MOCK[i]].slug = slug
             /\ \A j \in 1..(i - 1) : PostData[BLOG_POSTS_MOCK[j]].slug # slug]
    ELSE None

IsPublished(id) == PostData[id].status = "published"

getPublishedPosts == SelectSeq(BLOG_POSTS_MOCK, IsPublished)

\* A post as the code reads it: the fields of the store entry, views and likes as
\* they are now (every list holds references to the entries of BLOG_POSTS_MOCK).
Views(id) == store[id].views
Likes(id) == store[id].likes

(***************************************************************************)
(* BlogFilters.  A filter object is the sequence of its own properties in  *)
(* insertion order, each <<name, value>>; an absent property is not in it. *)
(***************************************************************************)
Has(f, name) == \E i \in 1..Len(f) : f[i][1] = name

Get(f, name) == f[CHOOSE i \in 1..Len(f) : f[i][1] = name][2]

\* if (filters.x): a property that is present and not "", false or undefined
TruthyStr(f, name) == Has(f, name) /\ Get(f, name) # <<>>
TruthyId(f, name) == Has(f, name) /\ Get(f, name) # ""
TruthyBool(f, name) == Has(f, name) /\ Get(f, name) = TRUE
NonEmptyList(f, name) == Has(f, name) /\ Len(Get(f, name)) > 0

MatchesSearch(id, searchTerm) ==
    \/ Includes(ToLowerCase(PostData[id].title), searchTerm)
    \/ Includes(ToLowerCase(PostData[id].excerpt), searchTerm)
    \/ \E i \in 1..Len(PostData[id].tags) :
           Includes(ToLowerCase(PostData[id].tags[i]), searchTerm)

\* filters.categoryIds.some((catId) => post.categoryIds.includes(catId))
SomeIncluded(wanted, have) ==
    \E i \in 1..Len(wanted) : SeqIncludes(have, wanted[i])

\* The same with `every`, the slip of requiring all of the wanted members.
EveryIncluded(wanted, have) ==
    \A i \in 1..Len(wanted) : SeqIncludes(have, wanted[i])

\* One stage of _applyFilters: if (cond) list = list.filter(Test)
KeepIf(cond, list, Test(_)) == IF cond THEN SelectSeq(list, Test) ELSE list

\* BlogService._applyFilters with the category stage filtering the input list
\* again instead of the list filtered so far.
ApplyFiltersFromInput(posts, filters) ==
    LET s1 == KeepIf(TruthyStr(filters, "search"), posts, LAMBDA p :
                  MatchesSearch(p, ToLowerCase(Get(filters, "search"))))
        s2 == IF NonEmptyList(filters, "categoryIds")
              THEN SelectSeq(posts, LAMBDA p :
                       SomeIncluded(Get(filters, "categoryIds"), PostData[p].categoryIds))
              ELSE s1
        s3 == KeepIf(NonEmptyList(filters, "tags"), s2, LAMBDA p :
                  SomeIncluded(Get(filters, "tags"), PostData[p].tags))
        s4 == KeepIf(TruthyId(filters, "authorId"), s3, LAMBDA p :
                  PostData[p].authorId = Get(filters, "authorId"))
        s5 == KeepIf(TruthyId(filters, "status"), s4, LAMBDA p :
                  PostData[p].status = Get(filters, "status"))
        s6 == KeepIf(TruthyBool(filters, "featured"), s5, LAMBDA p : PostData[p].featured)
        s7 == KeepIf(Has(filters, "dateFrom"), s6, LAMBDA p :
                  PostData[p].publishedAt >= Get(filters, "dateFrom"))
        s8 == KeepIf(Has(filters, "dateTo"), s7, LAMBDA p :
                  PostData[p].publishedAt <= Get(filters, "dateTo"))
    IN  s8

\* BlogService._applyFilters with `every` for `some` in the two set stages.
ApplyFiltersEvery(posts, filters) ==
    LET s1 == KeepIf(TruthyStr(filters, "search"), posts, LAMBDA p :
                  MatchesSearch(p, ToLowerCase(Get(filters, "search"))))
        s2 == KeepIf(NonEmptyList(filters, "categoryIds"), s1, LAMBDA p :
                  EveryIncluded(Get(filters, "categoryIds"), PostData[p].categoryIds))
        s3 == KeepIf(NonEmptyList(filters, "tags"), s2, LAMBDA p :
                  EveryIncluded(Get(filters, "tags"), PostData[p].tags))
        s4 == KeepIf(TruthyId(filters, "authorId"), s3, LAMBDA p :
                  PostData[p].authorId = Get(filters, "authorId"))
        s5 == KeepIf(TruthyId(filters, "status"), s4, LAMBDA p :
                  PostData[p].status = Get(filters, "status"))
        s6 == KeepIf(TruthyBool(filters, "featured"), s5, LAMBDA p : PostData[p].featured)
        s7 == KeepIf(Has(filters, "dateFrom"), s6, LAMBDA p :
                  PostData[p].publishedAt >= Get(filters, "dateFrom"))
        s8 == KeepIf(Has(filters, "dateTo"), s7, LAMBDA p :
                  PostData[p].publishedAt <= Get(filters, "dateTo"))
    IN  s8

\* BlogService._applyFilters
ApplyFilters(posts, filters) ==
    LET s1 == KeepIf(TruthyStr(filters, "search"), posts, LAMBDA p :
                  MatchesSearch(p, ToLowerCase(Get(filters, "search"))))
        s2 == KeepIf(NonEmptyList(filters, "categoryIds"), s1, LAMBDA p :
                  SomeIncluded(Get(filters, "categoryIds"), PostData[p].categoryIds))
        s3 == KeepIf(NonEmptyList(filters, "tags"), s2, LAMBDA p :
                  SomeIncluded(Get(filters, "tags"), PostData[p].tags))
        s4 == KeepIf(TruthyId(filters, "authorId"), s3, LAMBDA p :
                  PostData[p].authorId = Get(filters, "authorId"))
        s5 == KeepIf(TruthyId(filters, "status"), s4, LAMBDA p :
                  PostData[p].status = Get(filters, "status"))
        s6 == KeepIf(TruthyBool(filters, "featured"), s5, LAMBDA p : PostData[p].featured)
        s7 == KeepIf(Has(filters, "dateFrom"), s6, LAMBDA p :
                  PostData[p].publishedAt >= Get(filters, "dateFrom"))
        s8 == KeepIf(Has(filters, "dateTo"), s7, LAMBDA p :
                  PostData[p].publishedAt <= Get(filters, "dateTo"))
    IN  s8

(***************************************************************************)
(* Sort stage.                                                             *)
(***************************************************************************)
SortFields == {"publishedAt", "createdAt", "updatedAt", "title", "views", "likes",
               "commentsCount", "readingTime"}

NumericSortFields == SortFields \ {"title"}

\* The switch of the comparator: aValue / bValue for one post.
SortValue(id, sortBy) ==
    CASE sortBy = "publishedAt" -> PostData[id].publishedAt
      [] sortBy = "createdAt" -> PostData[id].createdAt
      [] sortBy = "updatedAt" -> PostData[id].updatedAt
      [] sortBy = "title" -> ToLowerCase(PostData[id].title)
      [] sortBy = "views" -> Views(id)
      [] sortBy = "likes" -> Likes(id)
      [] sortBy = "commentsCount" -> PostData[id].commentsCount
      [] sortBy = "readingTime" -> PostData[id].readingTime
      [] OTHER -> PostData[id].publishedAt

ValueLess(x, y, sortBy) == IF sortBy = "title" THEN StrLess(x, y) ELSE x < y

\* The comparator with the direction ignored: always ascending.
CompareAscOnly(a, b, sortBy, direction) ==
    LET aValue == SortValue(a, sortBy)
        bValue == SortValue(b, sortBy)
    IN  IF ValueLess(bValue, aValue, sortBy) THEN 1
        ELSE IF ValueLess(aValue, bValue, sortBy) THEN -1 ELSE 0

\* The comparator handed to Array.prototype.sort: 1, -1 or 0.
Compare(a, b, sortBy, direction) ==
    LET aValue == SortValue(a, sortBy)
        bValue == SortValue(b, sortBy)
        less == ValueLess(aValue, bValue, sortBy)
        greater == ValueLess(bValue, aValue, sortBy)
    IN  IF direction = "asc"
        THEN (IF greater THEN 1 ELSE IF less THEN -1 ELSE 0)
        ELSE (IF less THEN 1 ELSE IF greater THEN -1 ELSE 0)

\* Array.prototype.sort is stable: x goes behind every element that does not
\* compare greater than it.
RECURSIVE InsertSorted(_, _, _, _)
InsertSorted(sorted, x, sortBy, direction) ==
    IF sorted = <<>> THEN <<x>>
    ELSE IF Compare(sorted[1], x, sortBy, direction) > 0 THEN <<x>> \o sorted
    ELSE <<sorted[1]>> \o InsertSorted(Tail(sorted), x, sortBy, direction)

RECURSIVE SortFrom(_, _, _, _)
SortFrom(sorted, rest, sortBy, direction) ==
    IF rest = <<>> THEN sorted
    ELSE SortFrom(InsertSorted(sorted, rest[1], sortBy, direction), Tail(rest),
                  sortBy, direction)

\* The default values of the parameters sortBy and direction.
SortByOf(filters) == IF Has(filters, "sortBy") THEN Get(filters, "sortBy") ELSE "publishedAt"
DirectionOf(filters) ==
    IF Has(filters, "sortDirection") THEN Get(filters, "sortDirection") ELSE "desc"

\* BlogService._applySorting
ApplySorting(posts, sortBy, direction) == SortFrom(<<>>, posts, sortBy, direction)

(***************************************************************************)
(* Pagination stage and response.                                          *)
(***************************************************************************)
\* BlogService._applyPagination
ApplyPagination(posts, page, pageSize) ==
    LET startIndex == (page - 1) * pageSize
        endIndex == startIndex + pageSize
    IN  Slice(posts, startIndex, endIndex)

\* Math.floor(total / pageSize): the slip of rounding down.
MathFloorDiv(total, pageSize) == total \div pageSize

\* Math.ceil(total / pageSize), pageSize >= 1
MathCeilDiv(total, pageSize) ==
    IF total % pageSize = 0 THEN total \div pageSize ELSE (total \div pageSize) + 1

\* BlogService._buildResponse; totalItems is <<n>>, or <<>> for the omitted argument.
BuildResponse(posts, page, pageSize, filters, totalItems) ==
    LET total == IF totalItems = <<>> THEN Len(posts) ELSE totalItems[1]
        totalPages == MathCeilDiv(total, pageSize)
    IN  [data |-> posts,
         pagination |-> [currentPage |-> page,
                         totalPages |-> totalPages,
                         totalItems |-> total,
                         itemsPerPage |-> pageSize,
                         hasPrevious |-> page > 1,
                         hasNext |-> page < totalPages],
         filters |-> filters]

(***************************************************************************)
(* Query cache.                                                            *)
(***************************************************************************)
CACHE_DURATION == 300000

\* JSON.stringify of a filter object: its properties in insertion order.
JSONStringify(f) == [i \in 1..Len(f) |-> [key |-> f[i][1], value |-> f[i][2]]]

\* BlogService._generateCacheKey
GenerateCacheKey(page, pageSize, filters) == <<page, pageSize, JSONStringify(filters)>>

\* BlogService._isCacheValid with <= for <.
IsCacheValidInclusive(cacheKey) ==
    /\ cacheKey \in DOMAIN lastFetchTime
    /\ lastFetchTime[cacheKey] # 0
    /\ now - lastFetchTime[cacheKey] <= CACHE_DURATION

\* BlogService._isCacheValid
IsCacheValid(cacheKey) ==
    /\ cacheKey \in DOMAIN lastFetchTime
    /\ lastFetchTime[cacheKey] # 0
    /\ now - lastFetchTime[cacheKey] < CACHE_DURATION

MapSet(m, k, v) == [x \in DOMAIN m \cup {k} |-> IF x = k THEN v ELSE m[x]]

EmptyMap == [x \in {} |-> None]

(***************************************************************************)
(* Inputs of the service model.                                            *)
(***************************************************************************)
Pages == 1..MaxPage
PageSizes == 1..MaxPageSize

fNone == <<>>
fViewsDesc == << <<"sortBy", "views">>, <<"sortDirection", "desc">> >>
fTagAngular == << <<"tags", <<sAngular>>>> >>

ServiceFilters == {fNone, fViewsDesc, fTagAngular}

\* Ids handed to incrementViews / toggleLike: two posts and one id of no post.
MutationIds == {"post-4", "post-8", "post-0"}

\* Date.now() advances in steps of a fraction of the TTL.
TickStep == CACHE_DURATION \div TicksPerTTL
StartTime == CACHE_DURATION
MaxNow == StartTime + MaxTicks * TickStep

(***************************************************************************)
(* BlogService: state after construction.                                  *)
(***************************************************************************)
NoKey == <<0, 0, <<>>>>

NoMiss == [known |-> FALSE, data |-> <<>>, pagination |-> <<>>]

NoResp == [n |-> 0, cacheKey |-> NoKey, page |-> 0, pageSize |-> 0, hit |-> FALSE,
           data |-> <<>>, pagination |-> <<>>, filters |-> <<>>, sortValues |-> <<>>,
           expired |-> FALSE, replaced |-> <<>>, miss |-> NoMiss]

NoRead == [op |-> None, posts |-> <<>>]

ServiceInit ==
    /\ store = InitialCounters
    /\ now = StartTime
    /\ postsCache = EmptyMap
    /\ lastFetchTime = EmptyMap
    /\ loadingState = [loading |-> FALSE, error |-> FALSE, errorMessage |-> None,
                       initialLoad |-> TRUE, loadingMore |-> FALSE]
    /\ currentFilters = <<>>
    /\ currentPage = 1
    /\ pending = <<>>
    /\ calls = 0
    /\ runs = 0
    /\ mutations = 0
    /\ lastResp = NoResp
    /\ missResp = EmptyMap
    /\ delivered = EmptyMap

\* CategoriaService after construction.
CatInit ==
    /\ categoriesCache = <<>>
    /\ lastCacheTime = 0
    /\ catLoading = FALSE
    /\ catError = None
    /\ catRead = [op |-> None, value |-> None]
    /\ cleared = [posts |-> FALSE, categories |-> FALSE]

\* The service worker before any request: no cache opened.
\* A response header that was not sent, and response values before any response.
NoHeader == [present |-> FALSE, valid |-> FALSE, time |-> 0]

NoResponse == [ok |-> FALSE, body |-> 0, cachedDate |-> NoHeader, storedAt |-> 0]

NoSwResp == [handled |-> FALSE, url |-> None, source |-> None, fetched |-> FALSE,
             defined |-> FALSE, response |-> NoResponse, at |-> 0,
             hadEntry |-> FALSE, entryStoredAt |-> 0,
             netFailed |-> FALSE, threw |-> FALSE, cacheStatus |-> None]

SwInit ==
    /\ swCache = EmptyMap
    /\ swInstalled = FALSE
    /\ swFetches = 0
    /\ swResp = NoSwResp

\* BookmarkService after construction with nothing in localStorage
BmInit ==
    /\ bookmarks = <<>>
    /\ bmStorage = <<>>
    /\ bookmarkChanges = [action |-> "init", total |-> 0]
    /\ bmHist = [op |-> None, returned |-> FALSE, removed |-> 0]

NoComment == [likes |-> 0, dislikes |-> 0, isLikedByUser |-> FALSE,
              isDislikedByUser |-> FALSE, likesOfOthers |-> 0, dislikesOfOthers |-> 0]

VoteInit ==
    /\ comment = NoComment
    /\ commentLiked = <<>>

\* BlogCommentsComponent after ngOnInit: the form is empty, loadComments waits
\* in its setTimeout.
SubmitInit ==
    /\ comments = <<>>
    /\ submitting = FALSE
    /\ formValid = FALSE
    /\ timers = <<[kind |-> "loadComments", n |-> 0]>>
    /\ commentSubmitted = <<>>
    /\ submitHist = [accepted |-> 0, rejected |-> 0, busy |-> 0, last |-> None]

UiInit == BmInit /\ VoteInit /\ SubmitInit

ExtraInit ==
    /\ stageIO = None
    /\ CatInit
    /\ SwInit
    /\ UiInit

Init ==
    /\ ServiceInit
    /\ ExtraInit
    /\ lastRead = NoRead
    /\ filterIO = None
    /\ pageIO = None

\* BlogService._setLoading
SetLoading(state, loading) ==
    [state EXCEPT !.loading = loading,
                  !.error = FALSE,
                  !.errorMessage = None,
                  !.initialLoad = IF state.initialLoad /\ ~loading
                                  THEN FALSE ELSE state.initialLoad]

\* What the caller sees in the data of a response: the sort key of each item.
SortValuesOf(data, filters) ==
    [i \in 1..Len(data) |-> SortValue(data[i], SortByOf(filters))]

\* getPosts, lines 82-88: the entry is valid, the response is built from it at once.
GetPostsHit(page, pageSize, filters, cacheKey) ==
    LET cachedPosts == postsCache[cacheKey]
        resp == BuildResponse(cachedPosts, page, pageSize, filters, <<>>)
    IN  /\ loadingState' = SetLoading(SetLoading(loadingState, TRUE), FALSE)
        /\ lastResp' = [n |-> calls + 1, cacheKey |-> cacheKey, page |-> page,
                        pageSize |-> pageSize, hit |-> TRUE,
                        data |-> resp.data, pagination |-> resp.pagination,
                        filters |-> resp.filters,
                        sortValues |-> SortValuesOf(resp.data, filters),
                        expired |-> FALSE, replaced |-> <<>>,
                        miss |-> IF cacheKey \in DOMAIN missResp
                                 THEN missResp[cacheKey] ELSE NoMiss]
        /\ delivered' = MapSet(delivered, cacheKey, resp.data)
        /\ UNCHANGED <<postsCache, lastFetchTime, pending, runs, missResp,
                       currentFilters, currentPage>>

\* getPosts, lines 90-91: the request waits in delay(800).
GetPostsMiss(page, pageSize, filters, cacheKey) ==
    /\ loadingState' = SetLoading(loadingState, TRUE)
    /\ pending' = Append(pending,
                         [op |-> "getPosts", n |-> calls + 1, page |-> page,
                          pageSize |-> pageSize,
                          filters |-> filters, cacheKey |-> cacheKey,
                          expired |-> cacheKey \in DOMAIN lastFetchTime])
    /\ UNCHANGED <<postsCache, lastFetchTime, runs, missResp, delivered, lastResp,
                   currentFilters, currentPage>>

\* getPosts that never looks at the cache.
GetPostsCallNoCache(page, pageSize, filters) ==
    /\ calls' = calls + 1
    /\ GetPostsMiss(page, pageSize, filters, GenerateCacheKey(page, pageSize, filters))
    /\ UNCHANGED <<store, now, mutations>>

\* BlogService.getPosts, the call (lines 72-90)
GetPostsCall(page, pageSize, filters) ==
    LET cacheKey == GenerateCacheKey(page, pageSize, filters)
    IN  /\ calls' = calls + 1
        /\ IF IsCacheValid(cacheKey) /\ cacheKey \in DOMAIN postsCache
           THEN GetPostsHit(page, pageSize, filters, cacheKey)
           ELSE GetPostsMiss(page, pageSize, filters, cacheKey)
        /\ UNCHANGED <<store, now, mutations>>

\* The pipeline of the map callback: published posts, filtered, sorted.
FilteredSorted(filters) ==
    ApplySorting(ApplyFilters(getPublishedPosts, filters),
                 SortByOf(filters), DirectionOf(filters))

\* BlogService.getPosts, the map callback after delay(800) (lines 92-123).
\* Timers of equal delay fire in the order they were set: the oldest request first.
GetPostsComplete ==
    /\ pending # <<>>
    /\ Head(pending).op = "getPosts"
    /\ LET req == Head(pending)
           posts == FilteredSorted(req.filters)
           paginatedPosts == ApplyPagination(posts, req.page, req.pageSize)
           resp == BuildResponse(paginatedPosts, req.page, req.pageSize, req.filters,
                                 <<Len(posts)>>)
       IN  /\ postsCache' = MapSet(postsCache, req.cacheKey, posts)
           /\ lastFetchTime' = MapSet(lastFetchTime, req.cacheKey, now)
           /\ loadingState' = SetLoading(loadingState, FALSE)
           /\ currentFilters' = req.filters
           /\ currentPage' = req.page
           /\ lastResp' = [n |-> req.n, cacheKey |-> req.cacheKey, page |-> req.page,
                           pageSize |-> req.pageSize, hit |-> FALSE,
                           data |-> resp.data, pagination |-> resp.pagination,
                           filters |-> resp.filters,
                           sortValues |-> SortValuesOf(resp.data, req.filters),
                           expired |-> req.expired,
                           replaced |-> IF req.cacheKey \in DOMAIN postsCache
                                        THEN postsCache[req.cacheKey] ELSE <<>>,
                           miss |-> NoMiss]
           /\ missResp' = MapSet(missResp, req.cacheKey,
                                 [known |-> TRUE, data |-> resp.data,
                                  pagination |-> resp.pagination])
           /\ delivered' = MapSet(delivered, req.cacheKey, resp.data)
    /\ pending' = Tail(pending)
    /\ runs' = runs + 1
    /\ UNCHANGED <<store, now, calls, mutations>>

\* incrementViews that drops the cached lists when it changes a count.
IncrementViewsEvicting(postId) ==
    /\ mutations' = mutations + 1
    /\ IF getPostById(postId) # None
       THEN /\ store' = [store EXCEPT ![postId].views = @ + 1]
            /\ missResp' = EmptyMap
            /\ delivered' = EmptyMap
            /\ postsCache' = EmptyMap
            /\ lastFetchTime' = EmptyMap
       ELSE UNCHANGED <<store, missResp, delivered, postsCache, lastFetchTime>>
    /\ UNCHANGED <<now, loadingState, currentFilters,
                   currentPage, pending, calls, runs, lastResp>>

\* BlogService.incrementViews, the map callback (lines 277-284)
IncrementViews(postId) ==
    /\ mutations' = mutations + 1
    /\ IF getPostById(postId) # None
       THEN /\ store' = [store EXCEPT ![postId].views = @ + 1]
            /\ missResp' = EmptyMap
            /\ delivered' = EmptyMap
       ELSE UNCHANGED <<store, missResp, delivered>>
    /\ UNCHANGED <<now, postsCache, lastFetchTime, loadingState, currentFilters,
                   currentPage, pending, calls, runs, lastResp>>

\* BlogService.toggleLike, the map callback (lines 296-310); liked is
\* Math.random() > 0.5.  For an id of no post the callback throws and changes nothing.
ToggleLike(postId, liked) ==
    /\ mutations' = mutations + 1
    /\ IF getPostById(postId) # None
       THEN /\ store' = [store EXCEPT ![postId].likes = @ + (IF liked THEN 1 ELSE -1)]
            /\ missResp' = EmptyMap
            /\ delivered' = EmptyMap
       ELSE UNCHANGED <<store, missResp, delivered>>
    /\ UNCHANGED <<now, postsCache, lastFetchTime, loadingState, currentFilters,
                   currentPage, pending, calls, runs, lastResp>>

\* clearCache that clears the timestamps and leaves the result map.
ClearCacheTimestampsOnly ==
    /\ lastFetchTime' = EmptyMap
    /\ missResp' = EmptyMap
    /\ UNCHANGED <<store, now, postsCache, loadingState, currentFilters, currentPage,
                   pending, calls, runs, mutations, lastResp, delivered>>

\* clearCache that clears the result map and leaves the timestamps.
ClearCacheResultsOnly ==
    /\ postsCache' = EmptyMap
    /\ missResp' = EmptyMap
    /\ UNCHANGED <<store, now, lastFetchTime, loadingState, currentFilters, currentPage,
                   pending, calls, runs, mutations, lastResp, delivered>>

\* BlogService.clearCache
ClearCache ==
    /\ postsCache' = EmptyMap
    /\ lastFetchTime' = EmptyMap
    /\ missResp' = EmptyMap
    /\ UNCHANGED <<store, now, loadingState, currentFilters, currentPage, pending,
                   calls, runs, mutations, lastResp, delivered>>

\* BlogService.resetFilters
ResetFilters ==
    /\ currentFilters' = <<>>
    /\ currentPage' = 1
    /\ UNCHANGED <<store, now, postsCache, lastFetchTime, loadingState, pending,
                   calls, runs, mutations, lastResp, missResp, delivered>>

\* The clock.
Tick ==
    /\ now' = now + TickStep
    /\ UNCHANGED <<store, postsCache, lastFetchTime, loadingState, currentFilters,
                   currentPage, pending, calls, runs, mutations, lastResp,
                   missResp, delivered>>

(***************************************************************************)
(* The other read operations of BlogService.  lastRead is what the          *)
(* subscriber receives: the posts of the emitted value (none for null).    *)
(***************************************************************************)
MaxLimit == 1

Limits == 0..MaxLimit

\* The delay() of each operation that waits in pending.
DelayOf(op) ==
    CASE op = "getPosts" -> 800
      [] op = "getPostById" -> 400
      [] op = "getPostBySlug" -> 400
      [] op = "getCategories" -> 400
      [] op = "getCategoryById" -> 200
      [] op = "getCategoryBySlug" -> 200
      [] OTHER -> 300

\* A timer fires before every timer set later, and before an earlier one only if
\* its own delay is shorter.
Ready(i) == \A j \in 1..(i - 1) : DelayOf(pending[j].op) > DelayOf(pending[i].op)

RemoveAt(q, i) == SubSeq(q, 1, i - 1) \o SubSeq(q, i + 1, Len(q))

\* String.prototype.trim
RECURSIVE TrimStart(_)
TrimStart(t) == IF t # <<>> /\ t[1] = " " THEN TrimStart(Tail(t)) ELSE t

RECURSIVE TrimEnd(_)
TrimEnd(t) ==
    IF t # <<>> /\ t[Len(t)] = " " THEN TrimEnd(SubSeq(t, 1, Len(t) - 1)) ELSE t

Trim(t) == TrimEnd(TrimStart(t))

\* blog-mock.data.ts: searchPosts
searchPosts(term) ==
    SelectSeq(BLOG_POSTS_MOCK, LAMBDA p :
        /\ PostData[p].status = "published"
        /\ MatchesSearch(p, ToLowerCase(term)))

\* blog-mock.data.ts: getFeaturedPosts
getFeaturedPosts ==
    SelectSeq(BLOG_POSTS_MOCK, LAMBDA p :
        PostData[p].featured /\ PostData[p].status = "published")

\* blog-mock.data.ts: getPostsByCategory
getPostsByCategory(categoryId) ==
    SelectSeq(BLOG_POSTS_MOCK, LAMBDA p :
        SeqIncludes(PostData[p].categoryIds, categoryId) /\ PostData[p].status = "published")

\* blog-mock.data.ts: getPostsByAuthor
getPostsByAuthor(authorId) ==
    SelectSeq(BLOG_POSTS_MOCK, LAMBDA p :
        PostData[p].authorId = authorId /\ PostData[p].status = "published")

\* blog-mock.data.ts: getRelatedPosts
getRelatedPosts(postId, limit) ==
    LET currentPost == getPostById(postId)
    IN  IF currentPost = None THEN <<>>
        ELSE Slice(SelectSeq(BLOG_POSTS_MOCK, LAMBDA p :
                       /\ p # postId
                       /\ PostData[p].status = "published"
                       /\ \/ SomeIncluded(PostData[p].categoryIds,
                                          PostData[currentPost].categoryIds)
                          \/ SomeIncluded(PostData[p].tags, PostData[currentPost].tags)),
                   0, limit)

\* blog-mock.data.ts: getPopularPosts; (a, b) => b.views - a.views orders as 'desc'.
getPopularPosts(limit) ==
    Slice(ApplySorting(SelectSeq(BLOG_POSTS_MOCK, IsPublished), "views", "desc"), 0, limit)

\* blog-mock.data.ts: getRecentPosts
getRecentPosts(limit) ==
    Slice(ApplySorting(SelectSeq(BLOG_POSTS_MOCK, IsPublished), "publishedAt", "desc"),
          0, limit)

\* getPostById / getPostBySlug of the service, the call: _setLoading(true), delay(400)
LookupCall(op, arg) ==
    /\ loadingState' = SetLoading(loadingState, TRUE)
    /\ pending' = Append(pending, [op |-> op, arg |-> arg])
    /\ UNCHANGED <<store, now, postsCache, lastFetchTime, currentFilters, currentPage,
                   calls, runs, mutations, lastResp, missResp, delivered, lastRead>>

\* getPostById whose map callback throws for an id of no post, as that of
\* toggleLike does: catchError then reports the error.
GetPostByIdCompleteThrowing(i) ==
    /\ Ready(i)
    /\ pending[i].op = "getPostById"
    /\ LET post == getPostById(pending[i].arg)
       IN  IF post = None
           THEN /\ loadingState' = [loadingState EXCEPT !.loading = FALSE,
                                                        !.error = TRUE,
                                                        !.errorMessage = "Error al cargar post"]
                /\ UNCHANGED lastRead
           ELSE /\ loadingState' = SetLoading(loadingState, FALSE)
                /\ lastRead' = [op |-> "getPostById", posts |-> <<post>>]
    /\ pending' = RemoveAt(pending, i)
    /\ UNCHANGED <<store, now, postsCache, lastFetchTime, currentFilters, currentPage,
                   calls, runs, mutations, lastResp, missResp, delivered>>

\* BlogService.getPostById, the map callback (lines 139-143)
GetPostByIdComplete(i) ==
    /\ Ready(i)
    /\ pending[i].op = "getPostById"
    /\ LET post == getPostById(pending[i].arg)
       IN  lastRead' = [op |-> "getPostById",
                        posts |-> IF post = None THEN <<>> ELSE <<post>>]
    /\ loadingState' = SetLoading(loadingState, FALSE)
    /\ pending' = RemoveAt(pending, i)
    /\ UNCHANGED <<store, now, postsCache, lastFetchTime, currentFilters, currentPage,
                   calls, runs, mutations, lastResp, missResp, delivered>>

\* BlogService.getPostBySlug, the map callback (lines 159-163)
GetPostBySlugComplete(i) ==
    /\ Ready(i)
    /\ pending[i].op = "getPostBySlug"
    /\ LET post == getPostBySlug(pending[i].arg)
       IN  lastRead' = [op |-> "getPostBySlug",
                        posts |-> IF post = None THEN <<>> ELSE <<post>>]
    /\ loadingState' = SetLoading(loadingState, FALSE)
    /\ pending' = RemoveAt(pending, i)
    /\ UNCHANGED <<store, now, postsCache, lastFetchTime, currentFilters, currentPage,
                   calls, runs, mutations, lastResp, missResp, delivered>>

\* BlogService.searchPosts, the call (lines 233-241)
SearchPostsCall(term, filters) ==
    /\ IF Trim(term) = <<>>
       THEN /\ lastRead' = [op |-> "searchPosts", posts |-> <<>>]
            /\ UNCHANGED <<loadingState, pending>>
       ELSE /\ loadingState' = SetLoading(loadingState, TRUE)
            /\ pending' = Append(pending, [op |-> "searchPosts", arg |-> term,
                                           filters |-> filters])
            /\ UNCHANGED lastRead
    /\ UNCHANGED <<store, now, postsCache, lastFetchTime, currentFilters, currentPage,
                   calls, runs, mutations, lastResp, missResp, delivered>>

\* BlogService.searchPosts, the map callback (lines 242-253)
SearchPostsComplete(i) ==
    /\ Ready(i)
    /\ pending[i].op = "searchPosts"
    /\ LET req == pending[i]
           posts == ApplySorting(ApplyFilters(searchPosts(req.arg), req.filters),
                                 SortByOf(req.filters), DirectionOf(req.filters))
       IN  lastRead' = [op |-> "searchPosts", posts |-> posts]
    /\ loadingState' = SetLoading(loadingState, FALSE)
    /\ pending' = RemoveAt(pending, i)
    /\ UNCHANGED <<store, now, postsCache, lastFetchTime, currentFilters, currentPage,
                   calls, runs, mutations, lastResp, missResp, delivered>>

\* The reads that touch no state of the service: the value their map callback emits.
\* getFeaturedPosts, getPopularPosts, getRecentPosts, getRelatedPosts,
\* getPostsByCategory, getPostsByAuthor (lines 174-228, 264-269)
ListRead(op, arg, limit) ==
    /\ lastRead' =
          [op |-> op,
           posts |->
              CASE op = "getFeaturedPosts" -> Slice(getFeaturedPosts, 0, limit)
                [] op = "getPopularPosts" -> getPopularPosts(limit)
                [] op = "getRecentPosts" -> getRecentPosts(limit)
                [] op = "getRelatedPosts" -> getRelatedPosts(arg, limit)
                [] op = "getPostsByCategory" ->
                       IF limit # 0 THEN Slice(getPostsByCategory(arg), 0, limit)
                       ELSE getPostsByCategory(arg)
                [] OTHER ->
                       IF limit # 0 THEN Slice(getPostsByAuthor(arg), 0, limit)
                       ELSE getPostsByAuthor(arg)]
    /\ UNCHANGED serviceVars

fDraft == << <<"status", "draft">> >>

ReadFilters == {fNone, fDraft}

LookupIds == {"post-1", "post-21", "post-0"}

LookupSlugs == {PostData[p].slug : p \in {"post-4", "post-21"}} \cup {"no-such-post"}

SearchTerms == {<<"A", "N", "G">>, <<" ">>, <<"z", "z">>}

ReadNext ==
    \/ /\ calls < MaxCalls
       /\ Len(pending) < MaxInFlight
       /\ \E filters \in ReadFilters : GetPostsCall(1, MaxPageSize, filters)
       /\ UNCHANGED <<lastRead, filterIO, pageIO, extraVars>>
    \/ /\ GetPostsComplete
       /\ UNCHANGED <<lastRead, filterIO, pageIO, extraVars>>
    \/ /\ Len(pending) < MaxInFlight
       /\ \E id \in LookupIds : LookupCall("getPostById", id)
       /\ UNCHANGED <<filterIO, pageIO, extraVars>>
    \/ /\ Len(pending) < MaxInFlight
       /\ \E slug \in LookupSlugs : LookupCall("getPostBySlug", slug)
       /\ UNCHANGED <<filterIO, pageIO, extraVars>>
    \/ /\ \E i \in 1..Len(pending) : GetPostByIdComplete(i)
       /\ UNCHANGED <<filterIO, pageIO, extraVars>>
    \/ /\ \E i \in 1..Len(pending) : GetPostBySlugComplete(i)
       /\ UNCHANGED <<filterIO, pageIO, extraVars>>
    \/ /\ Len(pending) < MaxInFlight
       /\ \E term \in SearchTerms, filters \in ReadFilters : SearchPostsCall(term, filters)
       /\ UNCHANGED <<filterIO, pageIO, extraVars>>
    \/ /\ \E i \in 1..Len(pending) : SearchPostsComplete(i)
       /\ UNCHANGED <<filterIO, pageIO, extraVars>>
    \/ /\ \E op \in {"getFeaturedPosts", "getPopularPosts", "getRecentPosts"},
             limit \in Limits : ListRead(op, None, limit)
       /\ UNCHANGED <<filterIO, pageIO, extraVars>>
    \/ /\ \E id \in LookupIds, limit \in Limits : ListRead("getRelatedPosts", id, limit)
       /\ UNCHANGED <<filterIO, pageIO, extraVars>>
    \/ /\ \E cat \in {"categoria-1", "categoria-0"}, limit \in Limits :
              ListRead("getPostsByCategory", cat, limit)
       /\ UNCHANGED <<filterIO, pageIO, extraVars>>
    \/ /\ \E author \in {"autor-1", "autor-9"}, limit \in Limits :
              ListRead("getPostsByAuthor", author, limit)
       /\ UNCHANGED <<filterIO, pageIO, extraVars>>

SpecReads == Init /\ [][ReadNext]_vars

Next ==
    \/ /\ calls < MaxCalls
       /\ Len(pending) < MaxInFlight
       /\ \E page \in Pages, pageSize \in PageSizes, filters \in ServiceFilters :
              GetPostsCall(page, pageSize, filters)
       /\ UNCHANGED <<lastRead, filterIO, pageIO, extraVars>>
    \/ /\ GetPostsComplete
       /\ UNCHANGED <<lastRead, filterIO, pageIO, extraVars>>
    \/ /\ mutations < MaxMutations
       /\ \E postId \in MutationIds : IncrementViews(postId)
       /\ UNCHANGED <<lastRead, filterIO, pageIO, extraVars>>
    \/ /\ mutations < MaxMutations
       /\ \E postId \in MutationIds, liked \in BOOLEAN : ToggleLike(postId, liked)
       /\ UNCHANGED <<lastRead, filterIO, pageIO, extraVars>>
    \/ /\ ClearCache
       /\ UNCHANGED <<lastRead, filterIO, pageIO, extraVars>>
    \/ /\ ResetFilters
       /\ UNCHANGED <<lastRead, filterIO, pageIO, extraVars>>
    \/ /\ now + TickStep <= MaxNow
       /\ Tick
       /\ UNCHANGED <<lastRead, filterIO, pageIO, extraVars>>

Spec == Init /\ [][Next]_vars

(***************************************************************************)
(* CategoriaService.getCategories.  Six categories stand for               *)
(* CATEGORIES_MOCK: three main ones and three subcategories, with the      *)
(* field values of the source and each text cut to its first word.         *)
(***************************************************************************)
CATEGORIES_MOCK == <<"categoria-1", "categoria-2", "categoria-4", "categoria-7",
                     "categoria-8", "categoria-9">>

CategoryIds == Range(CATEGORIES_MOCK)

CategoryData ==
    [id \in CategoryIds |->
        CASE id = "categoria-1" ->
               [name |-> <<"D", "e", "s", "a", "r", "r", "o", "l", "l", "o">>,
                description |-> <<"T", "o", "d", "o">>,
                color |-> "#3B82F6", parentId |-> "", postsCount |-> 45,
                isActive |-> TRUE, order |-> 1]
          [] id = "categoria-2" ->
               [name |-> <<"I", "n", "t", "e", "l", "i", "g", "e", "n", "c", "i", "a">>,
                description |-> <<"M", "a", "c", "h", "i", "n", "e">>,
                color |-> "#8B5CF6", parentId |-> "", postsCount |-> 32,
                isActive |-> TRUE, order |-> 2]
          [] id = "categoria-4" ->
               [name |-> <<"C", "i", "b", "e", "r", "s", "e", "g", "u", "r", "i", "d", "a", "d">>,
                description |-> <<"S", "e", "g", "u", "r", "i", "d", "a", "d">>,
                color |-> "#EF4444", parentId |-> "", postsCount |-> 21,
                isActive |-> TRUE, order |-> 4]
          [] id = "categoria-7" ->
               [name |-> <<"F", "r", "o", "n", "t", "e", "n", "d">>,
                description |-> <<"D", "e", "s", "a", "r", "r", "o", "l", "l", "o">>,
                color |-> "#3B82F6", parentId |-> "categoria-1", postsCount |-> 25,
                isActive |-> TRUE, order |-> 1]
          [] id = "categoria-8" ->
               [name |-> <<"B", "a", "c", "k", "e", "n", "d">>,
                description |-> <<"D", "e", "s", "a", "r", "r", "o", "l", "l", "o">>,
                color |-> "#059669", parentId |-> "categoria-1", postsCount |-> 20,
                isActive |-> TRUE, order |-> 2]
          [] OTHER ->
               [name |-> <<"M", "a", "c", "h", "i", "n", "e">>,
                description |-> <<"A", "l", "g", "o", "r", "i", "t", "m", "o", "s">>,
                color |-> "#8B5CF6", parentId |-> "categoria-2", postsCount |-> 18,
                isActive |-> TRUE, order |-> 1]]

\* The search stage as two passes, matches by name ahead of matches by
\* description; the other stages as in _applyFilters.
CatApplyFiltersNameFirst(categories, filters) ==
    LET byName(c) == Includes(ToLowerCase(CategoryData[c].name),
                              ToLowerCase(Get(filters, "search")))
        byDescription(c) == Includes(ToLowerCase(CategoryData[c].description),
                                     ToLowerCase(Get(filters, "search")))
        s1 == IF TruthyStr(filters, "search")
              THEN SelectSeq(categories, byName) \o SelectSeq(categories, byDescription)
              ELSE categories
        s2 == KeepIf(TruthyBool(filters, "activeOnly"), s1, LAMBDA c :
                  CategoryData[c].isActive)
        s3 == KeepIf(TruthyBool(filters, "parentOnly"), s2, LAMBDA c :
                  CategoryData[c].parentId = "")
        s4 == KeepIf(TruthyId(filters, "parentId"), s3, LAMBDA c :
                  CategoryData[c].parentId = Get(filters, "parentId"))
        s5 == KeepIf(TruthyId(filters, "color"), s4, LAMBDA c :
                  CategoryData[c].color = Get(filters, "color"))
    IN  s5

\* CategoriaService._applyFilters
CatApplyFilters(categories, filters) ==
    LET s1 == KeepIf(TruthyStr(filters, "search"), categories, LAMBDA c :
                  \/ Includes(ToLowerCase(CategoryData[c].name),
                              ToLowerCase(Get(filters, "search")))
                  \/ Includes(ToLowerCase(CategoryData[c].description),
                              ToLowerCase(Get(filters, "search"))))
        s2 == KeepIf(TruthyBool(filters, "activeOnly"), s1, LAMBDA c :
                  CategoryData[c].isActive)
        s3 == KeepIf(TruthyBool(filters, "parentOnly"), s2, LAMBDA c :
                  CategoryData[c].parentId = "")
        s4 == KeepIf(TruthyId(filters, "parentId"), s3, LAMBDA c :
                  CategoryData[c].parentId = Get(filters, "parentId"))
        s5 == KeepIf(TruthyId(filters, "color"), s4, LAMBDA c :
                  CategoryData[c].color = Get(filters, "color"))
    IN  s5

\* The comparator of CategoriaService._applySorting.  For createdAt and updatedAt
\* the values are new Date(name).getTime(), NaN for each of these names, so that
\* neither > nor < holds.
CatCompare(a, b, sortBy, direction) ==
    LET byName == sortBy = "name"
        isNaN == sortBy \in {"createdAt", "updatedAt"}
        aValue == CASE sortBy = "name" -> ToLowerCase(CategoryData[a].name)
                    [] sortBy = "postsCount" -> CategoryData[a].postsCount
                    [] OTHER -> CategoryData[a].order
        bValue == CASE sortBy = "name" -> ToLowerCase(CategoryData[b].name)
                    [] sortBy = "postsCount" -> CategoryData[b].postsCount
                    [] OTHER -> CategoryData[b].order
        less == ~isNaN /\ (IF byName THEN StrLess(aValue, bValue) ELSE aValue < bValue)
        greater == ~isNaN /\ (IF byName THEN StrLess(bValue, aValue) ELSE aValue > bValue)
    IN  IF direction = "asc"
        THEN (IF greater THEN 1 ELSE IF less THEN -1 ELSE 0)
        ELSE (IF less THEN 1 ELSE IF greater THEN -1 ELSE 0)

RECURSIVE CatInsertSorted(_, _, _, _)
CatInsertSorted(sorted, x, sortBy, direction) ==
    IF sorted = <<>> THEN <<x>>
    ELSE IF CatCompare(sorted[1], x, sortBy, direction) > 0 THEN <<x>> \o sorted
    ELSE <<sorted[1]>> \o CatInsertSorted(Tail(sorted), x, sortBy, direction)

RECURSIVE CatSortFrom(_, _, _, _)
CatSortFrom(sorted, rest, sortBy, direction) ==
    IF rest = <<>> THEN sorted
    ELSE CatSortFrom(CatInsertSorted(sorted, rest[1], sortBy, direction), Tail(rest),
                     sortBy, direction)

\* CategoriaService._applySorting, with the defaults 'order' and 'asc'
CatApplySorting(categories, filters) ==
    CatSortFrom(<<>>, categories,
                IF Has(filters, "sortBy") THEN Get(filters, "sortBy") ELSE "order",
                IF Has(filters, "sortDirection") THEN Get(filters, "sortDirection")
                ELSE "asc")

\* The filtered and sorted list of getCategories (lines 62-72); the list of
\* _getCachedCategories is a copy of CATEGORIES_MOCK, from the cache or fresh.
CatFilteredSorted(filters) ==
    CatApplySorting(CatApplyFilters(CATEGORIES_MOCK, filters), filters)

\* CategoriaService.getCategories, the value of the map callback (lines 61-93);
\* _applyPagination of the service is the slice of BlogService._applyPagination.
GetCategories(page, pageSize, filters) ==
    LET categories == CatFilteredSorted(filters)
        paginatedCategories == ApplyPagination(categories, page, pageSize)
    IN  [data |-> paginatedCategories,
         pagination |-> [currentPage |-> page,
                         totalPages |-> MathCeilDiv(Len(categories), pageSize),
                         totalItems |-> Len(categories),
                         itemsPerPage |-> pageSize,
                         hasNext |-> page * pageSize < Len(categories),
                         hasPrevious |-> page > 1]]

(***************************************************************************)
(* The pagination descriptor on its own: the response of getPosts on a     *)
(* miss, of getPosts on a hit (built from the list the miss stored) and of *)
(* getCategories, for one page, page size and filter object.               *)
(***************************************************************************)
MaxPurePage == 7
MaxPurePageSize == 4

PageFilters ==
    [blog |-> {fNone, fViewsDesc, fTagAngular, fDraft,
               << <<"categoryIds", <<"categoria-1", "categoria-4">>>> >>},
     categorias |-> {<<>>,
                     << <<"parentOnly", TRUE>> >>,
                     << <<"parentId", "categoria-1">>, <<"sortBy", "name">> >>,
                     << <<"color", "#8B5CF6">>, <<"parentId", "categoria-2">> >>,
                     << <<"search", <<"z", "z">>>> >>,
                     << <<"sortBy", "postsCount">>, <<"sortDirection", "desc">> >>}]

PageInit ==
    /\ ServiceInit
    /\ lastRead = NoRead
    /\ filterIO = None
    /\ ExtraInit
    /\ \E svc \in {"getPosts-miss", "getPosts-hit", "getCategories"},
          page \in 1..MaxPurePage, pageSize \in 1..MaxPurePageSize :
          \E filters \in (IF svc = "getCategories" THEN PageFilters.categorias
                          ELSE PageFilters.blog) :
              pageIO = [phase |-> "input", svc |-> svc, page |-> page,
                        pageSize |-> pageSize, filters |-> filters,
                        dataLen |-> 0, pagination |-> <<>>]

\* The response each service builds for the input.
ResponseOf(svc, page, pageSize, filters) ==
    CASE svc = "getPosts-miss" ->
             BuildResponse(ApplyPagination(FilteredSorted(filters), page, pageSize),
                           page, pageSize, filters, <<Len(FilteredSorted(filters))>>)
      [] svc = "getPosts-hit" ->
             BuildResponse(FilteredSorted(filters), page, pageSize, filters, <<>>)
      [] OTHER -> GetCategories(page, pageSize, filters)

PageStep ==
    /\ pageIO.phase = "input"
    /\ LET resp == ResponseOf(pageIO.svc, pageIO.page, pageIO.pageSize, pageIO.filters)
       IN  pageIO' = [pageIO EXCEPT !.phase = "done",
                                    !.dataLen = Len(resp.data),
                                    !.pagination = resp.pagination]
    /\ UNCHANGED serviceVars
    /\ UNCHANGED <<lastRead, filterIO, extraVars>>

SpecPage == PageInit /\ [][PageStep]_vars

\* The size of the filtered, not yet paginated set.
FilteredCount(svc, filters) ==
    IF svc = "getCategories"
    THEN Cardinality({c \in CategoryIds : SeqIncludes(CatApplyFilters(CATEGORIES_MOCK, filters), c)})
    ELSE Cardinality({p \in PostIds : SeqIncludes(ApplyFilters(getPublishedPosts, filters), p)})

\* C5: every paginated response of getPosts and getCategories has totalItems = size
\* of the filtered set, totalPages = ceil(totalItems / itemsPerPage) (the least k
\* with k * itemsPerPage >= totalItems), hasNext = (currentPage < totalPages) and
\* hasPrevious = (currentPage > 1); the hasNext of getCategories, page * pageSize <
\* totalItems, agrees with it.
C5_PaginationDescriptor ==
    (pageIO.phase = "done") =>
        LET pg == pageIO.pagination
        IN  /\ pg.currentPage = pageIO.page
            /\ pg.itemsPerPage = pageIO.pageSize
            /\ pg.totalItems = FilteredCount(pageIO.svc, pageIO.filters)
            /\ pg.totalPages * pg.itemsPerPage >= pg.totalItems
            /\ pg.totalPages >= 0
            /\ pg.totalPages > 0 => (pg.totalPages - 1) * pg.itemsPerPage < pg.totalItems
            /\ pg.hasNext = (pg.currentPage < pg.totalPages)
            /\ pg.hasPrevious = (pg.currentPage > 1)

\* getCategories answered for the last page of several, a partly filled one.
C5_Witness ==
    /\ pageIO.phase = "done"
    /\ pageIO.svc = "getCategories"
    /\ pageIO.pagination.totalPages > 1
    /\ pageIO.pagination.currentPage = pageIO.pagination.totalPages
    /\ pageIO.pagination.totalItems % pageIO.pagination.itemsPerPage # 0
    /\ ~pageIO.pagination.hasNext

(***************************************************************************)
(* The filter stage on its own: _applyFilters applied to a list of posts   *)
(* as getPublishedPosts() or searchPosts(term) hand it over (published     *)
(* posts in store order) and one filter object.                            *)
(***************************************************************************)
\* A property that may be absent: <<>> or <<value>>.
Prop(name, opt) == IF opt = <<>> THEN <<>> ELSE << <<name, opt[1]>> >>

SearchOpts == {<<>>, << <<>> >>, << <<"A", "N", "G">> >>, << <<"c", "i">> >>}
CategoryOpts == {<<>>, << <<>> >>, << <<"categoria-1">> >>,
                 << <<"categoria-4", "categoria-7">> >>, << <<"categoria-99">> >>}
TagOpts == {<<>>, << <<>> >>, << <<sAngular>> >>, << <<sPython, sSecurity>> >>}
AuthorOpts == {<<>>, <<"autor-1">>}
StatusOpts == {<<>>, <<"published">>, <<"draft">>}
FeaturedOpts == {<<>>, <<TRUE>>, <<FALSE>>}
DateFromOpts == {<<>>, <<20240105>>}
DateToOpts == {<<>>, <<20240105>>}

FilterSpace ==
    { Prop("search", a) \o Prop("categoryIds", b) \o Prop("tags", c)
      \o Prop("authorId", d) \o Prop("status", e) \o Prop("featured", g)
      \o Prop("dateFrom", h) \o Prop("dateTo", k) :
        a \in SearchOpts, b \in CategoryOpts, c \in TagOpts, d \in AuthorOpts,
        e \in StatusOpts, g \in FeaturedOpts, h \in DateFromOpts, k \in DateToOpts }

\* The lists of published posts in store order.
PostLists ==
    { SelectSeq(getPublishedPosts, LAMBDA p : p \in S) : S \in SUBSET PostIds }

FilterInit ==
    /\ ServiceInit
    /\ lastRead = NoRead
    /\ pageIO = None
    /\ ExtraInit
    /\ \E posts \in PostLists, filters \in FilterSpace :
           filterIO = [phase |-> "input", posts |-> posts, filters |-> filters,
                       out |-> <<>>]

FilterStep ==
    /\ filterIO.phase = "input"
    /\ filterIO' = [filterIO EXCEPT !.phase = "done",
                                    !.out = ApplyFilters(filterIO.posts, filterIO.filters)]
    /\ UNCHANGED serviceVars
    /\ UNCHANGED <<lastRead, pageIO, extraVars>>

SpecFilter == FilterInit /\ [][FilterStep]_vars

(***************************************************************************)
(* Properties of the filter stage.                                         *)
(***************************************************************************)
OnlyProp(f, name) == \A i \in 1..Len(f) : f[i][1] = name

Members(f, name) == IF Has(f, name) THEN Range(Get(f, name)) ELSE {}

\* The posts of the list, in its order, that share a member with the set C.
Intersecting(posts, C, field) ==
    SelectSeq(posts, LAMBDA p :
        (IF field = "categoryIds" THEN Range(PostData[p].categoryIds)
         ELSE Range(PostData[p].tags)) \cap C # {})

\* C7: with only a category-set (or only a tag-set) constraint C the filter stage
\* returns exactly the posts whose categoryIds (tags) share an element with C, and
\* with C empty or absent it returns the input unchanged.
C7_SetFilterIsIntersection ==
    (filterIO.phase = "done") =>
        \A field \in {"categoryIds", "tags"} :
            OnlyProp(filterIO.filters, field) =>
                IF Members(filterIO.filters, field) = {}
                THEN filterIO.out = filterIO.posts
                ELSE filterIO.out =
                         Intersecting(filterIO.posts, Members(filterIO.filters, field), field)

\* A category set of two members kept some of the posts and dropped others.
C7_Witness ==
    /\ filterIO.phase = "done"
    /\ OnlyProp(filterIO.filters, "categoryIds")
    /\ Cardinality(Members(filterIO.filters, "categoryIds")) = 2
    /\ Len(filterIO.out) > 0
    /\ Len(filterIO.out) < Len(filterIO.posts)

\* What each predicate of a filter object asks of a post.
Satisfies(p, f) ==
    /\ (Has(f, "search") /\ Get(f, "search") # <<>>) =>
           LET term == ToLowerCase(Get(f, "search"))
           IN  \/ Includes(ToLowerCase(PostData[p].title), term)
               \/ Includes(ToLowerCase(PostData[p].excerpt), term)
               \/ \E t \in Range(PostData[p].tags) : Includes(ToLowerCase(t), term)
    /\ Members(f, "categoryIds") # {} =>
           Members(f, "categoryIds") \cap Range(PostData[p].categoryIds) # {}
    /\ Members(f, "tags") # {} => Members(f, "tags") \cap Range(PostData[p].tags) # {}
    /\ Has(f, "authorId") => PostData[p].authorId = Get(f, "authorId")
    /\ Has(f, "status") => PostData[p].status = Get(f, "status")
    /\ (Has(f, "featured") /\ Get(f, "featured")) => PostData[p].featured
    /\ Has(f, "dateFrom") => Get(f, "dateFrom") <= PostData[p].publishedAt
    /\ Has(f, "dateTo") => PostData[p].publishedAt <= Get(f, "dateTo")

\* The posts every predicate of f keeps when it is applied alone to the list.
KeptByEach(posts, f) ==
    SelectSeq(posts, LAMBDA p :
        \A i \in 1..Len(f) : SeqIncludes(ApplyFilters(posts, <<f[i]>>), p))

MaxPagingCalls == 3

PagingFilters == {fNone, fViewsDesc}

PagingNext ==
    \/ /\ calls < MaxPagingCalls
       /\ Len(pending) < MaxInFlight
       /\ \E page \in Pages, pageSize \in PageSizes, filters \in PagingFilters :
              GetPostsCall(page, pageSize, filters)
       /\ UNCHANGED <<lastRead, filterIO, pageIO, extraVars>>
    \/ /\ GetPostsComplete
       /\ UNCHANGED <<lastRead, filterIO, pageIO, extraVars>>
    \/ /\ ClearCache
       /\ UNCHANGED <<lastRead, filterIO, pageIO, extraVars>>
    \/ /\ now + TickStep <= MaxNow
       /\ Tick
       /\ UNCHANGED <<lastRead, filterIO, pageIO, extraVars>>

SpecPaging == Init /\ [][PagingNext]_vars

(***************************************************************************)
(* Properties of getPosts and its cache.                                   *)
(***************************************************************************)

\* C1: two getPosts calls with the same (page, pageSize, filters), within the TTL
\* and with no store mutation in between, return deep-equal responses: the cache
\* hit has the data and the pagination descriptor of the cache miss.
C1_HitEqualsMiss ==
    (lastResp.hit /\ lastResp.miss.known) =>
        /\ lastResp.data = lastResp.miss.data
        /\ lastResp.pagination = lastResp.miss.pagination

\* The key of the getPosts call a step makes: that of the response it delivers
\* (hit) or of the request it leaves waiting (miss).
IsCallStep == calls' = calls + 1

CalledKey ==
    IF lastResp'.n = calls' THEN lastResp'.cacheKey
    ELSE pending'[Len(pending')].cacheKey

EntryAge(cacheKey) == now - lastFetchTime[cacheKey]

HasEntry(cacheKey) == cacheKey \in DOMAIN postsCache /\ cacheKey \in DOMAIN lastFetchTime

NoneWaitingFor(cacheKey) == \A i \in 1..Len(pending) : pending[i].cacheKey # cacheKey

\* C2: a getPosts call for a key whose entry exists with now - computedAt < TTL,
\* the previous call for the key completed, does not run the filter and sort
\* stages: no pipeline run is started or scheduled, the cache is left as it is
\* and the response is built from the stored entry.
C2_HitSkipsPipeline ==
    [][(/\ IsCallStep
        /\ HasEntry(CalledKey)
        /\ EntryAge(CalledKey) < CACHE_DURATION
        /\ NoneWaitingFor(CalledKey))
       => /\ runs' = runs
          /\ pending' = pending
          /\ postsCache' = postsCache
          /\ lastFetchTime' = lastFetchTime
          /\ lastResp'.n = calls'
          /\ lastResp'.hit
          /\ lastResp'.data = postsCache[CalledKey]]_vars

\* A second call answered from the entry the first one stored.
C2_Witness ==
    /\ lastResp.hit
    /\ lastResp.n = 2
    /\ runs = 1
    /\ pending = <<>>
    /\ lastResp.cacheKey \in DOMAIN postsCache
    /\ lastResp.data = postsCache[lastResp.cacheKey]

\* The response of a recomputation over the store as it is.
FreshResponse(page, pageSize, filters) ==
    BuildResponse(ApplyPagination(FilteredSorted(filters), page, pageSize),
                  page, pageSize, filters, <<Len(FilteredSorted(filters))>>)

\* C3: a getPosts call made when now - computedAt >= TTL for its key (the
\* boundary included) treats the entry as absent: it is not answered from the
\* cache, and its completion runs filter, sort and pagination over the current
\* store, so that the result has the order and the counts of the store with the
\* mutations made since, and replaces the entry and its timestamp.
C3_ExpiredEntryRecomputed ==
    [][/\ (IsCallStep /\ CalledKey \in DOMAIN lastFetchTime
                      /\ EntryAge(CalledKey) >= CACHE_DURATION)
          => /\ lastResp' = lastResp
             /\ pending' = Append(pending, pending'[Len(pending')])
             /\ pending'[Len(pending')].n = calls'
             /\ pending'[Len(pending')].expired
             /\ postsCache' = postsCache
       /\ (runs' = runs + 1 /\ Head(pending).expired)
          => LET req == Head(pending)
                 fresh == FreshResponse(req.page, req.pageSize, req.filters)
             IN  /\ lastResp'.n = req.n
                 /\ ~lastResp'.hit
                 /\ lastResp'.data = fresh.data
                 /\ lastResp'.pagination = fresh.pagination
                 /\ lastResp'.sortValues = SortValuesOf(fresh.data, req.filters)
                 /\ postsCache'[req.cacheKey] = FilteredSorted(req.filters)
                 /\ lastFetchTime'[req.cacheKey] = now]_vars

\* A call made exactly at the TTL boundary has completed, and the list it stored
\* differs from the one it replaced: a view counted in between changed the order.
C3_Witness ==
    /\ lastResp.expired
    /\ ~lastResp.hit
    /\ lastResp.replaced # <<>>
    /\ lastResp.cacheKey \in DOMAIN postsCache
    /\ lastResp.replaced # postsCache[lastResp.cacheKey]
    /\ lastFetchTime[lastResp.cacheKey] = StartTime + TicksPerTTL * TickStep
    /\ store # InitialCounters

RECURSIVE Concat(_)
Concat(lists) == IF lists = <<>> THEN <<>> ELSE Head(lists) \o Concat(Tail(lists))

\* C4: for fixed filters and page size p over N filtered items, the data of the
\* responses for page = 1..ceil(N/p), concatenated in page order, is the full
\* filtered and sorted sequence, each item once, whatever the order of the
\* requests and whether a response came from the cache or a recomputation.
C4_PagesReconstructList ==
    \A filters \in PagingFilters, pageSize \in PageSizes :
        LET full == FilteredSorted(filters)
            pages == MathCeilDiv(Len(full), pageSize)
            keyOf(page) == GenerateCacheKey(page, pageSize, filters)
        IN  (\A page \in 1..pages : keyOf(page) \in DOMAIN delivered)
            => Concat([page \in 1..pages |-> delivered[keyOf(page)]]) = full

\* C6: a getPosts call with page > totalPages returns an empty data array with
\* hasNext = false and hasPrevious = true, on a cache miss and on a cache hit.
C6_PagePastEndIsEmpty ==
    (lastResp.n > 0 /\ lastResp.page > lastResp.pagination.totalPages) =>
        /\ lastResp.data = <<>>
        /\ ~lastResp.pagination.hasNext
        /\ lastResp.pagination.hasPrevious

C10_ResponseOrdered ==
    (lastResp.n > 0 /\ SortByOf(lastResp.filters) \in NumericSortFields) =>
        \A i \in 1..(Len(lastResp.sortValues) - 1) :
            IF DirectionOf(lastResp.filters) = "desc"
            THEN lastResp.sortValues[i] >= lastResp.sortValues[i + 1]
            ELSE lastResp.sortValues[i] <= lastResp.sortValues[i + 1]

(***************************************************************************)
(* The filter and sort stages of both services on their own: one list, one *)
(* filter object or one sort field and direction, one application.         *)
(***************************************************************************)
MaxStageLen == 3

\* The lists of at most MaxStageLen different members of S, in every order.
ListsOver(S) ==
    UNION { { l \in [1..n -> S] : \A i, j \in 1..n : i # j => l[i] # l[j] } :
            n \in 0..MaxStageLen }

\* Filter objects with at most two of the filter properties.
StagePostFilters == { f \in FilterSpace : Len(f) <= 2 }

CatSortFields == {"name", "postsCount", "order", "createdAt", "updatedAt"}

CatFilterSpace ==
    { Prop("search", a) \o Prop("activeOnly", b) \o Prop("parentOnly", c)
      \o Prop("parentId", d) \o Prop("color", e) :
        a \in {<<>>, << <<>> >>, << <<"D", "E", "S">> >>, << <<"z", "z">> >>},
        b \in {<<>>, <<TRUE>>, <<FALSE>>},
        c \in {<<>>, <<TRUE>>},
        d \in {<<>>, <<"categoria-1">>, <<"">>},
        e \in {<<>>, <<"#8B5CF6">>} }

NoStage == [phase |-> "input", svc |-> None, stage |-> None, input |-> <<>>,
            filters |-> <<>>, sortBy |-> None, direction |-> None,
            out |-> <<>>, resorted |-> <<>>, opposite |-> <<>>, after |-> <<>>]

StageInit ==
    /\ ServiceInit
    /\ lastRead = NoRead
    /\ filterIO = None
    /\ pageIO = None
    /\ CatInit
    /\ SwInit
    /\ UiInit
    /\ \/ \E input \in ListsOver(PostIds), filters \in StagePostFilters :
              stageIO = [NoStage EXCEPT !.svc = "BlogService", !.stage = "filter",
                                        !.input = input, !.filters = filters]
       \/ \E input \in ListsOver(CategoryIds), filters \in CatFilterSpace :
              stageIO = [NoStage EXCEPT !.svc = "CategoriaService", !.stage = "filter",
                                        !.input = input, !.filters = filters]
       \/ \E input \in ListsOver(PostIds), sortBy \in SortFields,
             direction \in {"asc", "desc"} :
              stageIO = [NoStage EXCEPT !.svc = "BlogService", !.stage = "sort",
                                        !.input = input, !.sortBy = sortBy,
                                        !.direction = direction]
       \/ \E input \in ListsOver(CategoryIds), sortBy \in CatSortFields,
             direction \in {"asc", "desc"} :
              stageIO = [NoStage EXCEPT !.svc = "CategoriaService", !.stage = "sort",
                                        !.input = input, !.sortBy = sortBy,
                                        !.direction = direction]

Opposite(direction) == IF direction = "asc" THEN "desc" ELSE "asc"

\* _applySorting of the service named, on a list
SortOf(svc, list, sortBy, direction) ==
    IF svc = "BlogService" THEN ApplySorting(list, sortBy, direction)
    ELSE CatSortFrom(<<>>, list, sortBy, direction)

\* _applyFilters: each stage is list = list.filter(...), a new array; the array
\* passed in is never written to.
StageFilter ==
    /\ stageIO.phase = "input"
    /\ stageIO.stage = "filter"
    /\ stageIO' = [stageIO EXCEPT
           !.phase = "done",
           !.out = IF stageIO.svc = "BlogService"
                   THEN ApplyFilters(stageIO.input, stageIO.filters)
                   ELSE CatApplyFilters(stageIO.input, stageIO.filters),
           !.after = stageIO.input]
    /\ UNCHANGED serviceVars
    /\ UNCHANGED <<lastRead, filterIO, pageIO, uiVars, catVars, swVars>>

\* _applySorting: [...list].sort(comparator) sorts a copy.  The stage is applied to
\* the list, to its own result, and to the list with the direction reversed.
StageSort ==
    /\ stageIO.phase = "input"
    /\ stageIO.stage = "sort"
    /\ LET out == SortOf(stageIO.svc, stageIO.input, stageIO.sortBy, stageIO.direction)
       IN  stageIO' = [stageIO EXCEPT
               !.phase = "done",
               !.out = out,
               !.resorted = SortOf(stageIO.svc, out, stageIO.sortBy, stageIO.direction),
               !.opposite = SortOf(stageIO.svc, stageIO.input, stageIO.sortBy,
                                   Opposite(stageIO.direction)),
               !.after = stageIO.input]
    /\ UNCHANGED serviceVars
    /\ UNCHANGED <<lastRead, filterIO, pageIO, uiVars, catVars, swVars>>

StageNext == StageFilter \/ StageSort

SpecStage == StageInit /\ [][StageNext]_vars

\* The sort key of one element; the Invalid Date of new Date(name) is one value.
SortKeyOf(svc, x, sortBy) ==
    IF svc = "BlogService" THEN SortValue(x, sortBy)
    ELSE CASE sortBy = "name" -> ToLowerCase(CategoryData[x].name)
           [] sortBy = "postsCount" -> CategoryData[x].postsCount
           [] sortBy = "order" -> CategoryData[x].order
           [] OTHER -> "NaN"

KeysDistinct(svc, list, sortBy) ==
    \A i, j \in 1..Len(list) :
        i # j => SortKeyOf(svc, list[i], sortBy) # SortKeyOf(svc, list[j], sortBy)

Reverse(list) == [i \in 1..Len(list) |-> list[Len(list) + 1 - i]]

fDescViews == << <<"sortDirection", "desc">>, <<"sortBy", "views">> >>

KeyFilters == {fViewsDesc, fDescViews}

KeysNext ==
    \/ /\ calls < MaxCalls
       /\ Len(pending) < MaxInFlight
       /\ \E page \in Pages, pageSize \in PageSizes, filters \in KeyFilters :
              GetPostsCall(page, pageSize, filters)
       /\ UNCHANGED <<lastRead, filterIO, pageIO, extraVars>>
    \/ /\ GetPostsComplete
       /\ UNCHANGED <<lastRead, filterIO, pageIO, extraVars>>
    \/ /\ now + TickStep <= MaxNow
       /\ Tick
       /\ UNCHANGED <<lastRead, filterIO, pageIO, extraVars>>

SpecKeys == Init /\ [][KeysNext]_vars

\* The arguments of the getPosts call a step makes.
CalledArgs ==
    IF lastResp'.n = calls'
    THEN [page |-> lastResp'.page, pageSize |-> lastResp'.pageSize,
          filters |-> lastResp'.filters]
    ELSE [page |-> pending'[Len(pending')].page,
          pageSize |-> pending'[Len(pending')].pageSize,
          filters |-> pending'[Len(pending')].filters]

\* The key was derived from this page and page size and from a filter object
\* with the same properties and values, in whatever order.
KeyOfSameQuery(cacheKey, args) ==
    /\ cacheKey[1] = args.page
    /\ cacheKey[2] = args.pageSize
    /\ {<<cacheKey[3][i].key, cacheKey[3][i].value>> : i \in 1..Len(cacheKey[3])}
           = Range(args.filters)
    /\ Len(cacheKey[3]) = Len(args.filters)

\* C12: two getPosts calls with the same page and page size whose filter objects
\* hold the same fields and values in a different insertion order derive the same
\* cache key: the second, made within the TTL of the entry the first created, is
\* answered from that entry.
C12_KeyIgnoresInsertionOrder ==
    [][(/\ IsCallStep
        /\ \E cacheKey \in DOMAIN postsCache \cap DOMAIN lastFetchTime :
               /\ EntryAge(cacheKey) < CACHE_DURATION
               /\ KeyOfSameQuery(cacheKey, CalledArgs))
       => /\ lastResp'.n = calls'
          /\ lastResp'.hit
          /\ pending' = pending
          /\ KeyOfSameQuery(lastResp'.cacheKey, CalledArgs)]_vars

(***************************************************************************)
(* CategoriaService: its cache of the category list, its lookups and its   *)
(* loading and error signals.  Its requests wait in pending with those of  *)
(* BlogService: the timers are those of one event loop.                    *)
(***************************************************************************)
CAT_CACHE_DURATION == 600000

CategorySlug ==
    [id \in CategoryIds |->
        CASE id = "categoria-1" -> "desarrollo-web"
          [] id = "categoria-2" -> "inteligencia-artificial"
          [] id = "categoria-4" -> "ciberseguridad"
          [] id = "categoria-7" -> "frontend"
          [] id = "categoria-8" -> "backend"
          [] OTHER -> "machine-learning"]

\* categorias-mock.data.ts: getCategoryById
getCategoryById(id) == IF id \in CategoryIds THEN id ELSE None

\* categorias-mock.data.ts: getCategoryBySlug
getCategoryBySlug(slug) ==
    IF \E c \in CategoryIds : CategorySlug[c] = slug
    THEN CHOOSE c \in CategoryIds : CategorySlug[c] = slug
    ELSE None

\* What no operation of CategoriaService touches of BlogService.
blogButPending == <<store, now, postsCache, lastFetchTime, loadingState, currentFilters,
                    currentPage, calls, runs, mutations, lastResp, missResp, delivered>>

\* CategoriaService.getCategories, the call: _setLoading(true), delay(400)
GetCategoriesCall(page, pageSize, filters) ==
    /\ catLoading' = TRUE
    /\ catError' = None
    /\ pending' = Append(pending, [op |-> "getCategories", page |-> page,
                                   pageSize |-> pageSize, filters |-> filters])
    /\ UNCHANGED <<categoriesCache, lastCacheTime, catRead>>
    /\ UNCHANGED blogButPending

\* CategoriaService._getCachedCategories: the cached copy while it is younger
\* than CACHE_DURATION, a new copy of CATEGORIES_MOCK otherwise.
CachedCategoriesValid ==
    categoriesCache # <<>> /\ now - lastCacheTime < CAT_CACHE_DURATION

\* CategoriaService.getCategories, the map callback (lines 61-93)
GetCategoriesComplete(i) ==
    /\ Ready(i)
    /\ pending[i].op = "getCategories"
    /\ LET req == pending[i]
           cached == IF CachedCategoriesValid THEN categoriesCache[1] ELSE CATEGORIES_MOCK
           categories == CatApplySorting(CatApplyFilters(cached, req.filters), req.filters)
           paginatedCategories == ApplyPagination(categories, req.page, req.pageSize)
       IN  /\ categoriesCache' = <<cached>>
           /\ lastCacheTime' = IF CachedCategoriesValid THEN lastCacheTime ELSE now
           /\ catRead' =
                  [op |-> "getCategories",
                   value |-> [data |-> paginatedCategories,
                              pagination |->
                                  [currentPage |-> req.page,
                                   totalPages |-> MathCeilDiv(Len(categories), req.pageSize),
                                   totalItems |-> Len(categories),
                                   itemsPerPage |-> req.pageSize,
                                   hasNext |-> req.page * req.pageSize < Len(categories),
                                   hasPrevious |-> req.page > 1]]]
    /\ catLoading' = FALSE
    /\ pending' = RemoveAt(pending, i)
    /\ UNCHANGED catError
    /\ UNCHANGED blogButPending

\* getCategoryById / getCategoryBySlug of the service, the call: _setLoading(true),
\* delay(200)
CategoryLookupCall(op, arg) ==
    /\ catLoading' = TRUE
    /\ catError' = None
    /\ pending' = Append(pending, [op |-> op, arg |-> arg])
    /\ UNCHANGED <<categoriesCache, lastCacheTime, catRead>>
    /\ UNCHANGED blogButPending

\* CategoriaService.getCategoryById, the map callback (lines 110-114)
GetCategoryByIdComplete(i) ==
    /\ Ready(i)
    /\ pending[i].op = "getCategoryById"
    /\ catRead' = [op |-> "getCategoryById", value |-> getCategoryById(pending[i].arg)]
    /\ catLoading' = FALSE
    /\ pending' = RemoveAt(pending, i)
    /\ UNCHANGED <<categoriesCache, lastCacheTime, catError>>
    /\ UNCHANGED blogButPending

\* CategoriaService.getCategoryBySlug, the map callback (lines 130-134)
GetCategoryBySlugComplete(i) ==
    /\ Ready(i)
    /\ pending[i].op = "getCategoryBySlug"
    /\ catRead' = [op |-> "getCategoryBySlug", value |-> getCategoryBySlug(pending[i].arg)]
    /\ catLoading' = FALSE
    /\ pending' = RemoveAt(pending, i)
    /\ UNCHANGED <<categoriesCache, lastCacheTime, catError>>
    /\ UNCHANGED blogButPending

\* CategoriaService.clearCache
CatClearCache ==
    /\ categoriesCache' = <<>>
    /\ lastCacheTime' = 0
    /\ UNCHANGED <<catLoading, catError, catRead, pending>>
    /\ UNCHANGED blogButPending

(***************************************************************************)
(* clearCache of both services among their list reads.                     *)
(***************************************************************************)
ClearCategoryFilters == {<<>>, << <<"parentOnly", TRUE>> >>}

ClearNext ==
    \/ /\ calls < MaxCalls
       /\ Len(pending) < MaxInFlight
       /\ \E pageSize \in PageSizes : GetPostsCall(1, pageSize, fViewsDesc)
       /\ UNCHANGED <<lastRead, filterIO, pageIO, extraVars>>
    \/ /\ GetPostsComplete
       /\ cleared' = [cleared EXCEPT !.posts = FALSE]
       /\ UNCHANGED <<lastRead, filterIO, pageIO, uiVars, stageIO, swVars>>
       /\ UNCHANGED <<categoriesCache, lastCacheTime, catLoading, catError, catRead>>
    \/ /\ ClearCache
       /\ cleared' = [cleared EXCEPT !.posts = TRUE]
       /\ UNCHANGED <<lastRead, filterIO, pageIO, uiVars, stageIO, swVars>>
       /\ UNCHANGED <<categoriesCache, lastCacheTime, catLoading, catError, catRead>>
    \/ /\ mutations < MaxMutations
       /\ IncrementViews("post-8")
       /\ UNCHANGED <<lastRead, filterIO, pageIO, extraVars>>
    \/ /\ now + TickStep <= MaxNow
       /\ Tick
       /\ UNCHANGED <<lastRead, filterIO, pageIO, extraVars>>
    \/ /\ Len(pending) < MaxInFlight
       /\ \E filters \in ClearCategoryFilters : GetCategoriesCall(1, MaxPageSize, filters)
       /\ UNCHANGED <<lastRead, filterIO, pageIO, uiVars, stageIO, swVars, cleared>>
    \/ /\ \E i \in 1..Len(pending) : GetCategoriesComplete(i)
       /\ cleared' = [cleared EXCEPT !.categories = FALSE]
       /\ UNCHANGED <<lastRead, filterIO, pageIO, uiVars, stageIO, swVars>>
    \/ /\ CatClearCache
       /\ cleared' = [cleared EXCEPT !.categories = TRUE]
       /\ UNCHANGED <<lastRead, filterIO, pageIO, uiVars, stageIO, swVars>>

SpecClear == Init /\ [][ClearNext]_vars

\* C13: clearCache drops every entry whatever its age.  After BlogService.clearCache
\* the result map and the timestamp map are empty until a computation completes,
\* and a getPosts call made then is a miss whose completion recomputes from the
\* store; after CategoriaService.clearCache the next getCategories to complete
\* takes a new copy of the category store and stamps it.
C13_ClearCacheDropsAll ==
    [][/\ cleared'.posts => (postsCache' = EmptyMap /\ lastFetchTime' = EmptyMap)
       /\ (IsCallStep /\ cleared.posts)
          => /\ pending' = Append(pending, pending'[Len(pending')])
             /\ pending'[Len(pending')].n = calls'
             /\ lastResp' = lastResp
       /\ (runs' = runs + 1 /\ cleared.posts)
          => LET req == Head(pending)
                 fresh == FreshResponse(req.page, req.pageSize, req.filters)
             IN  /\ lastResp'.n = req.n
                 /\ ~lastResp'.hit
                 /\ lastResp'.data = fresh.data
                 /\ lastResp'.sortValues = SortValuesOf(fresh.data, req.filters)
                 /\ postsCache'[req.cacheKey] = FilteredSorted(req.filters)
       /\ cleared'.categories => (categoriesCache' = <<>> /\ lastCacheTime' = 0)
       /\ (cleared.categories /\ ~cleared'.categories)
          => /\ categoriesCache' = <<CATEGORIES_MOCK>>
             /\ lastCacheTime' = now
             /\ catRead'.op = "getCategories"]_vars

\* Both caches were filled, cleared while young, and filled again by the next
\* list read of each service; the post list was recomputed after a view count
\* changed the order.
C13_Witness ==
    /\ ~cleared.posts
    /\ ~cleared.categories
    /\ runs = 2
    /\ lastResp.n = 2
    /\ ~lastResp.hit
    /\ ~lastResp.expired
    /\ store # InitialCounters
    /\ lastResp.cacheKey \in DOMAIN postsCache
    /\ postsCache[lastResp.cacheKey] = <<"post-1", "post-8", "post-4">>
    /\ categoriesCache = <<CATEGORIES_MOCK>>
    /\ lastCacheTime > StartTime
    /\ lastCacheTime - StartTime < CAT_CACHE_DURATION

(***************************************************************************)
(* Counts shown by responses served from the cache.                        *)
(***************************************************************************)

\* A step in which getPosts is answered from the entry that the response before
\* it, a recomputation for the same key, has stored.
IsHitAfterItsMiss ==
    /\ IsCallStep
    /\ lastResp'.n = calls'
    /\ lastResp'.hit
    /\ lastResp.n > 0
    /\ ~lastResp.hit
    /\ lastResp.cacheKey = lastResp'.cacheKey

\* C14: after incrementViews or toggleLike changed the counter of post p, a
\* getPosts response served from an entry computed before the change still shows
\* p with the count it had when the entry was computed.
C14_HitShowsCountOfEntry ==
    [][IsHitAfterItsMiss
       => \A i \in 1..Len(lastResp.data), j \in 1..Len(lastResp'.data) :
              lastResp.data[i] = lastResp'.data[j]
                  => lastResp'.sortValues[j] = lastResp.sortValues[i]]_vars

(***************************************************************************)
(* Every operation of BlogService side by side: what each leaves of the    *)
(* cache.                                                                  *)
(***************************************************************************)
FrameNext ==
    \/ /\ calls < MaxCalls
       /\ Len(pending) < MaxInFlight
       /\ \E pageSize \in PageSizes : GetPostsCall(1, pageSize, fViewsDesc)
       /\ UNCHANGED <<lastRead, filterIO, pageIO, extraVars>>
    \/ /\ GetPostsComplete
       /\ UNCHANGED <<lastRead, filterIO, pageIO, extraVars>>
    \/ /\ mutations < MaxMutations
       /\ IncrementViews("post-8")
       /\ UNCHANGED <<lastRead, filterIO, pageIO, extraVars>>
    \/ /\ mutations < MaxMutations
       /\ ToggleLike("post-4", TRUE)
       /\ UNCHANGED <<lastRead, filterIO, pageIO, extraVars>>
    \/ /\ ClearCache
       /\ UNCHANGED <<lastRead, filterIO, pageIO, extraVars>>
    \/ /\ ResetFilters
       /\ UNCHANGED <<lastRead, filterIO, pageIO, extraVars>>
    \/ /\ now + TickStep <= MaxNow
       /\ Tick
       /\ UNCHANGED <<lastRead, filterIO, pageIO, extraVars>>
    \/ /\ pending = <<>>
       /\ LookupCall("getPostById", "post-1")
       /\ UNCHANGED <<filterIO, pageIO, extraVars>>
    \/ /\ pending = <<>>
       /\ LookupCall("getPostBySlug", "no-such-post")
       /\ UNCHANGED <<filterIO, pageIO, extraVars>>
    \/ /\ \E i \in 1..Len(pending) : GetPostByIdComplete(i)
       /\ UNCHANGED <<filterIO, pageIO, extraVars>>
    \/ /\ \E i \in 1..Len(pending) : GetPostBySlugComplete(i)
       /\ UNCHANGED <<filterIO, pageIO, extraVars>>
    \/ /\ pending = <<>>
       /\ SearchPostsCall(<<"A", "N", "G">>, fNone)
       /\ UNCHANGED <<filterIO, pageIO, extraVars>>
    \/ /\ \E i \in 1..Len(pending) : SearchPostsComplete(i)
       /\ UNCHANGED <<filterIO, pageIO, extraVars>>
    \/ /\ \E op \in {"getFeaturedPosts", "getPopularPosts", "getRecentPosts"} :
              ListRead(op, None, MaxLimit)
       /\ UNCHANGED <<filterIO, pageIO, extraVars>>
    \/ /\ ListRead("getRelatedPosts", "post-1", MaxLimit)
       /\ UNCHANGED <<filterIO, pageIO, extraVars>>
    \/ /\ ListRead("getPostsByCategory", "categoria-1", MaxLimit)
       /\ UNCHANGED <<filterIO, pageIO, extraVars>>
    \/ /\ ListRead("getPostsByAuthor", "autor-1", MaxLimit)
       /\ UNCHANGED <<filterIO, pageIO, extraVars>>

SpecFrame == Init /\ [][FrameNext]_vars

CacheUnchanged == postsCache' = postsCache /\ lastFetchTime' = lastFetchTime

\* The step writes the entry of one key and leaves every other entry.
OnlyEntryWritten(cacheKey) ==
    /\ DOMAIN postsCache' = DOMAIN postsCache \cup {cacheKey}
    /\ DOMAIN lastFetchTime' = DOMAIN lastFetchTime \cup {cacheKey}
    /\ \A k \in DOMAIN postsCache \ {cacheKey} : postsCache'[k] = postsCache[k]
    /\ \A k \in DOMAIN lastFetchTime \ {cacheKey} : lastFetchTime'[k] = lastFetchTime[k]

\* C15: no operation other than clearCache removes or alters a cache entry.
\* incrementViews, toggleLike, resetFilters, the clock and every read other than
\* the completion of a getPosts miss leave both cache maps as they are (an expired
\* entry stays); the completion of a miss writes the entry of its own key only; a
\* step that loses a key is clearCache, which empties both maps.
C15_CacheFrame ==
    [][/\ (mutations' # mutations) => CacheUnchanged
       /\ (currentFilters' # currentFilters /\ runs' = runs) => CacheUnchanged
       /\ (now' # now) => CacheUnchanged
       /\ IsCallStep => CacheUnchanged
       /\ (lastRead' # lastRead) => CacheUnchanged
       /\ (pending' # pending /\ runs' = runs) => CacheUnchanged
       /\ (runs' = runs + 1) => OnlyEntryWritten(Head(pending).cacheKey)
       /\ (~CacheUnchanged /\ runs' = runs)
              => (postsCache' = EmptyMap /\ lastFetchTime' = EmptyMap)
       /\ \/ DOMAIN postsCache \subseteq DOMAIN postsCache'
          \/ postsCache' = EmptyMap]_vars

\* Two entries are cached, one of them past its TTL and still in both maps, after
\* a counter was changed and other reads were answered.
C15_Witness ==
    /\ Cardinality(DOMAIN postsCache) = 2
    /\ DOMAIN lastFetchTime = DOMAIN postsCache
    /\ \E k \in DOMAIN lastFetchTime : now - lastFetchTime[k] >= CACHE_DURATION
    /\ \E k \in DOMAIN lastFetchTime : now - lastFetchTime[k] < CACHE_DURATION
    /\ store # InitialCounters
    /\ lastRead.op # None
    /\ currentPage = 1
    /\ currentFilters = <<>>

(***************************************************************************)
(* Lookups by id and by slug of both services, next to list reads that     *)
(* fill the caches.                                                        *)
(***************************************************************************)
CategoryLookupIds == {"categoria-1", "categoria-0"}

CategoryLookupSlugs == {"frontend", "no-such-category"}

LookupsNext ==
    \/ /\ calls < MaxCalls
       /\ Len(pending) < MaxInFlight
       /\ GetPostsCall(1, MaxPageSize, fNone)
       /\ UNCHANGED <<lastRead, filterIO, pageIO, extraVars>>
    \/ /\ GetPostsComplete
       /\ UNCHANGED <<lastRead, filterIO, pageIO, extraVars>>
    \/ /\ Len(pending) < MaxInFlight
       /\ \E id \in {"post-1", "post-0"} : LookupCall("getPostById", id)
       /\ UNCHANGED <<filterIO, pageIO, extraVars>>
    \/ /\ Len(pending) < MaxInFlight
       /\ \E slug \in {PostData["post-4"].slug, "no-such-post"} :
              LookupCall("getPostBySlug", slug)
       /\ UNCHANGED <<filterIO, pageIO, extraVars>>
    \/ /\ \E i \in 1..Len(pending) : GetPostByIdComplete(i)
       /\ UNCHANGED <<filterIO, pageIO, extraVars>>
    \/ /\ \E i \in 1..Len(pending) : GetPostBySlugComplete(i)
       /\ UNCHANGED <<filterIO, pageIO, extraVars>>
    \/ /\ Len(pending) < MaxInFlight
       /\ GetCategoriesCall(1, MaxPageSize, <<>>)
       /\ UNCHANGED <<lastRead, filterIO, pageIO, uiVars, stageIO, swVars, cleared>>
    \/ /\ \E i \in 1..Len(pending) : GetCategoriesComplete(i)
       /\ UNCHANGED <<lastRead, filterIO, pageIO, uiVars, stageIO, swVars, cleared>>
    \/ /\ Len(pending) < MaxInFlight
       /\ \E id \in CategoryLookupIds : CategoryLookupCall("getCategoryById", id)
       /\ UNCHANGED <<lastRead, filterIO, pageIO, uiVars, stageIO, swVars, cleared>>
    \/ /\ Len(pending) < MaxInFlight
       /\ \E slug \in CategoryLookupSlugs : CategoryLookupCall("getCategoryBySlug", slug)
       /\ UNCHANGED <<lastRead, filterIO, pageIO, uiVars, stageIO, swVars, cleared>>
    \/ /\ \E i \in 1..Len(pending) : GetCategoryByIdComplete(i)
       /\ UNCHANGED <<lastRead, filterIO, pageIO, uiVars, stageIO, swVars, cleared>>
    \/ /\ \E i \in 1..Len(pending) : GetCategoryBySlugComplete(i)
       /\ UNCHANGED <<lastRead, filterIO, pageIO, uiVars, stageIO, swVars, cleared>>

SpecLookups == Init /\ [][LookupsNext]_vars

\* The step in which the waiting request i, of operation op, completes.
Completes(i, op) ==
    /\ i \in 1..Len(pending)
    /\ pending[i].op = op
    /\ pending' = RemoveAt(pending, i)

\* The lookup of the waiting request i finds nothing.
NoMatch(i) ==
    CASE pending[i].op = "getPostById" -> getPostById(pending[i].arg) = None
      [] pending[i].op = "getPostBySlug" -> getPostBySlug(pending[i].arg) = None
      [] pending[i].op = "getCategoryById" -> getCategoryById(pending[i].arg) = None
      [] pending[i].op = "getCategoryBySlug" -> getCategoryBySlug(pending[i].arg) = None
      [] OTHER -> FALSE

StoresAndCachesUnchanged ==
    /\ store' = store
    /\ postsCache' = postsCache
    /\ lastFetchTime' = lastFetchTime
    /\ categoriesCache' = categoriesCache
    /\ lastCacheTime' = lastCacheTime

\* C16: a lookup by id or slug that matches nothing (getPostById, getPostBySlug of
\* BlogService; getCategoryById, getCategoryBySlug of CategoriaService) emits null
\* and raises no error, ends with loading false and the error unset, and changes
\* neither the store nor a cache.
C16_LookupOfNothingEmitsNull ==
    [][\A i \in 1..Len(pending) :
          /\ \A op \in {"getPostById", "getPostBySlug"} :
                 (Completes(i, op) /\ NoMatch(i))
                     => /\ lastRead' = [op |-> op, posts |-> <<>>]
                        /\ ~loadingState'.loading
                        /\ ~loadingState'.error
                        /\ loadingState'.errorMessage = None
                        /\ StoresAndCachesUnchanged
          /\ \A op \in {"getCategoryById", "getCategoryBySlug"} :
                 (Completes(i, op) /\ NoMatch(i))
                     => /\ catRead'.op = op
                        /\ catRead'.value = None
                        /\ ~catLoading'
                        /\ catError' = None
                        /\ StoresAndCachesUnchanged]_vars

\* Both caches are filled and nothing is waiting; the last lookup of each service
\* found nothing and emitted null.
C16_Witness ==
    /\ lastRead = [op |-> "getPostBySlug", posts |-> <<>>]
    /\ catRead.op = "getCategoryById"
    /\ catRead.value = None
    /\ postsCache # EmptyMap
    /\ categoriesCache # <<>>
    /\ pending = <<>>
    /\ ~loadingState.loading
    /\ ~catLoading

(***************************************************************************)
(* Overlapping getPosts calls.                                             *)
(***************************************************************************)

\* Every entry of the cache is the filtered and sorted list of the filters of its
\* key.
EntriesMatchTheirKeys ==
    \A page \in Pages, pageSize \in PageSizes, filters \in PagingFilters :
        LET cacheKey == GenerateCacheKey(page, pageSize, filters)
        IN  cacheKey \in DOMAIN postsCache
                => postsCache[cacheKey] = FilteredSorted(filters)

\* C17: for every interleaving of overlapping getPosts calls the cache map is
\* never corrupted: every entry maps its key to the filtered and sorted list of
\* the key's own filters, and the response of each call is the correct page for
\* its own (page, pageSize, filters).
C17_OverlappingCallsCorrect ==
    /\ EntriesMatchTheirKeys
    /\ lastResp.n > 0 =>
          LET fresh == FreshResponse(lastResp.page, lastResp.pageSize, lastResp.filters)
          IN  /\ lastResp.cacheKey
                    = GenerateCacheKey(lastResp.page, lastResp.pageSize, lastResp.filters)
              /\ lastResp.data = fresh.data
              /\ lastResp.pagination = fresh.pagination

(***************************************************************************)
(* The filter stage as a function from list to list.                       *)
(***************************************************************************)

\* sub is list with some members left out: the members of sub, in the order of sub,
\* are found in list from left to right.
RECURSIVE IsSubsequence(_, _)
IsSubsequence(sub, list) ==
    IF sub = <<>> THEN TRUE
    ELSE IF list = <<>> THEN FALSE
    ELSE IF Head(sub) = Head(list) THEN IsSubsequence(Tail(sub), Tail(list))
    ELSE IsSubsequence(sub, Tail(list))

HalfOpenSlice(list, from, to) ==
    LET first == IF from < Len(list) THEN from ELSE Len(list)
        last == IF to < Len(list) THEN to ELSE Len(list)
    IN  [i \in 1..(last - first) |-> list[first + i]]

\* C19: in every response of getPosts, computed on a miss or served from the
\* cache, data is exactly the half-open slice
\* [(page-1)*pageSize, (page-1)*pageSize + pageSize) of the filtered and sorted
\* list, so that data.length <= itemsPerPage.
C19_DataIsThePageSlice ==
    (lastResp.n > 0 /\ lastResp.cacheKey \in DOMAIN postsCache) =>
        LET from == (lastResp.page - 1) * lastResp.pageSize
        IN  /\ lastResp.data = HalfOpenSlice(postsCache[lastResp.cacheKey],
                                             from, from + lastResp.pageSize)
            /\ Len(lastResp.data) <= lastResp.pagination.itemsPerPage

(***************************************************************************)
(* The service worker (sw.js): install, and fetch events for static assets.*)
(* A URL is its pathname and the extension the pathname ends with.  A       *)
(* response is ok or not, has a body (the number of the fetch that brought  *)
(* it, 0 for the precache) and the "sw-cached-date" header as the server    *)
(* sent it; storedAt is history: Date.now() of the cache.put.               *)
(***************************************************************************)
CACHE_NAME == "blog-cache-v1"

RUNTIME_CACHE_NAME == "blog-runtime-cache-v1"

IMAGE_CACHE_NAME == "blog-images-cache-v1"

\* CACHE_TTL, the entries for static assets and API requests, in milliseconds
CACHE_TTL == [STATIC |-> 7 * 24 * 60 * 60 * 1000, API |-> 60 * 60 * 1000]

\* A URL: its pathname, the segments of the pathname and the extension it ends with.
criticalCss == [pathname |-> "/assets/css/critical.css",
                path |-> <<"assets", "css", "critical.css">>, ext |-> "css"]

mainJs == [pathname |-> "/main.js", path |-> <<"main.js">>, ext |-> "js"]

rootPage == [pathname |-> "/", path |-> <<>>, ext |-> ""]

blogPage == [pathname |-> "/blog", path |-> <<"blog">>, ext |-> ""]

blogCategoryPage == [pathname |-> "/blog/categoria/tecnologia",
                     path |-> <<"blog", "categoria", "tecnologia">>, ext |-> ""]

blogPostPage == [pathname |-> "/blog/post", path |-> <<"blog", "post">>, ext |-> ""]

apiPosts == [pathname |-> "/api/posts", path |-> <<"api", "posts">>, ext |-> ""]

apiCategories == [pathname |-> "/api/categories", path |-> <<"api", "categories">>,
                  ext |-> ""]

offlineHtml == [pathname |-> "/offline.html", path |-> <<"offline.html">>, ext |-> "html"]

StaticUrls == {criticalCss, mainJs}

\* STATIC_CACHE_URLS, the pages and the static asset among them
STATIC_CACHE_URLS == {rootPage, blogPage, criticalCss}

\* criticalResources of preloadCriticalResources, the first page among them
criticalResources == {blogCategoryPage}

MaxSwFetches == 2
MaxSwTicks == 3

SwTickStep == CACHE_TTL.STATIC \div 2

MaxSwNow == StartTime + MaxSwTicks * SwTickStep

\* The "sw-cached-date" header as a server may send it: not at all, with the
\* time of the response, or with a value that is no date.
ServerHeaders ==
    {NoHeader,
     [present |-> TRUE, valid |-> TRUE, time |-> now],
     [present |-> TRUE, valid |-> FALSE, time |-> 0]}

\* What fetch(request) resolves to, or "error" when it rejects.
NetworkOutcomes ==
    {[kind |-> "error", ok |-> FALSE, cachedDate |-> NoHeader]}
    \cup {[kind |-> "response", ok |-> ok, cachedDate |-> h] :
              ok \in BOOLEAN, h \in ServerHeaders}

\* isStaticAsset: /\.(css|js|woff2?|ttf|eot)$/i
isStaticAsset(url) == url.ext \in {"css", "js", "woff", "woff2", "ttf", "eot"}

\* isExpired.  For a header that is no date getTime() is NaN and the comparison
\* now - NaN > ttl is false.
isExpired(response, ttl) ==
    IF ~response.cachedDate.present THEN TRUE
    ELSE IF ~response.cachedDate.valid THEN FALSE
    ELSE now - response.cachedDate.time > ttl

\* The caches in the order caches.match looks through them.
CacheOrder == <<CACHE_NAME, RUNTIME_CACHE_NAME, IMAGE_CACHE_NAME>>

Holding(url) ==
    { i \in 1..Len(CacheOrder) :
          /\ CacheOrder[i] \in DOMAIN swCache
          /\ url \in DOMAIN swCache[CacheOrder[i]] }

\* caches.match(request): <<>> for undefined, <<response>> for the first match
CachesMatch(url) ==
    IF Holding(url) = {} THEN <<>>
    ELSE LET first == CHOOSE i \in Holding(url) : \A j \in Holding(url) : i <= j
         IN  <<swCache[CacheOrder[first]][url]>>

\* caches.open(name) followed by cache.put(request, response) on the result
CachePut(cacheStorage, name, url, response) ==
    MapSet(cacheStorage, name,
           MapSet(IF name \in DOMAIN cacheStorage THEN cacheStorage[name] ELSE EmptyMap,
                  url, response))

RECURSIVE PutAll(_, _, _, _)
PutAll(cacheStorage, name, urls, response) ==
    IF urls = {} THEN MapSet(cacheStorage, name,
                             IF name \in DOMAIN cacheStorage THEN cacheStorage[name]
                             ELSE EmptyMap)
    ELSE LET url == CHOOSE u \in urls : TRUE
         IN  PutAll(CachePut(cacheStorage, name, url, response), name,
                    urls \ {url}, response)

\* The install listeners (lines 42-60 and 390-396).  caches.open creates the
\* cache; cache.addAll stores every URL or, when one request fails, none, and the
\* failure is logged.  preloadCriticalResources returns at once when the
\* connection is not 4g; else it opens the runtime cache and stores each of its
\* pages whose fetch succeeds.
SwInstall(allOk, cachedDate, preload) ==
    /\ ~swInstalled
    /\ swInstalled' = TRUE
    /\ LET fromServer == [ok |-> TRUE, body |-> 0, cachedDate |-> cachedDate,
                          storedAt |-> now]
           precached == PutAll(swCache, CACHE_NAME,
                               IF allOk THEN STATIC_CACHE_URLS ELSE {}, fromServer)
       IN  swCache' = CASE preload = "not4g" -> precached
                        [] preload = "failed" ->
                               PutAll(precached, RUNTIME_CACHE_NAME, {}, fromServer)
                        [] preload = "stored" ->
                               PutAll(precached, RUNTIME_CACHE_NAME, criticalResources,
                                      fromServer)
    /\ UNCHANGED <<swFetches, swResp>>

\* handleStaticAsset (lines 109-130)
handleStaticAsset(url, net) ==
    LET cachedResponse == CachesMatch(url)
        seen == [handled |-> TRUE, url |-> url, at |-> now,
                 hadEntry |-> cachedResponse # <<>>,
                 entryStoredAt |-> IF cachedResponse # <<>>
                                   THEN cachedResponse[1].storedAt ELSE 0,
                 netFailed |-> net.kind = "error"
                               /\ ~(/\ cachedResponse # <<>>
                                    /\ ~isExpired(cachedResponse[1], CACHE_TTL.STATIC)),
                 threw |-> FALSE, cacheStatus |-> None]
    IN  IF cachedResponse # <<>> /\ ~isExpired(cachedResponse[1], CACHE_TTL.STATIC)
        THEN /\ swResp' = seen @@ [source |-> "cache", fetched |-> FALSE,
                                   defined |-> TRUE, response |-> cachedResponse[1]]
             /\ UNCHANGED <<swCache, swFetches>>
        ELSE /\ swFetches' = swFetches + 1
             /\ IF net.kind = "error"
                THEN /\ swResp' = seen @@
                            [source |-> "fallback", fetched |-> TRUE,
                             defined |-> cachedResponse # <<>>,
                             response |-> IF cachedResponse # <<>>
                                          THEN cachedResponse[1] ELSE NoResponse]
                     /\ UNCHANGED swCache
                ELSE LET networkResponse == [ok |-> net.ok, body |-> swFetches + 1,
                                             cachedDate |-> net.cachedDate,
                                             storedAt |-> now]
                     IN  /\ swCache' = IF networkResponse.ok
                                       THEN CachePut(swCache, CACHE_NAME, url,
                                                     networkResponse)
                                       ELSE swCache
                         /\ swResp' = seen @@ [source |-> "network", fetched |-> TRUE,
                                               defined |-> TRUE,
                                               response |-> networkResponse]

\* The fetch listener (lines 81-103) for a request other than GET: the worker
\* does not respond.
FetchEventNotGet(url) ==
    /\ swInstalled
    /\ swResp' = [NoSwResp EXCEPT !.url = url, !.at = now]
    /\ UNCHANGED <<swCache, swInstalled, swFetches>>

\* The fetch listener (lines 81-103) for a GET of a static asset
FetchEventStatic(url, net) ==
    /\ swInstalled
    /\ isStaticAsset(url)
    /\ handleStaticAsset(url, net)
    /\ UNCHANGED swInstalled

\* Date.now() moves on by half the TTL of static assets.
SwTick ==
    /\ now' = now + SwTickStep
    /\ UNCHANGED <<store, postsCache, lastFetchTime, loadingState, currentFilters,
                   currentPage, pending, calls, runs, mutations, lastResp,
                   missResp, delivered>>

SwNext ==
    \/ /\ \E allOk \in BOOLEAN, cachedDate \in ServerHeaders,
             preload \in {"not4g", "failed", "stored"} :
              SwInstall(allOk, cachedDate, preload)
       /\ UNCHANGED <<serviceVars, lastRead, filterIO, pageIO, uiVars, stageIO, catVars>>
    \/ /\ \E url \in StaticUrls : FetchEventNotGet(url)
       /\ UNCHANGED <<serviceVars, lastRead, filterIO, pageIO, uiVars, stageIO, catVars>>
    \/ /\ swFetches < MaxSwFetches
       /\ \E url \in StaticUrls, net \in NetworkOutcomes : FetchEventStatic(url, net)
       /\ UNCHANGED <<serviceVars, lastRead, filterIO, pageIO, uiVars, stageIO, catVars>>
    \/ /\ now + SwTickStep <= MaxSwNow
       /\ SwTick
       /\ UNCHANGED <<lastRead, filterIO, pageIO, uiVars, stageIO, catVars, swVars>>

SpecSW == Init /\ [][SwNext]_vars

\* C20: service worker, static assets (cache first): a GET for a static asset
\* that the worker itself stored in the cache less than 7 days ago is answered
\* from the cache without a network fetch; the network is contacted only when
\* there is no cached response or it is older than the static TTL.
C20_StaticAssetCacheFirst ==
    (swResp.handled /\ isStaticAsset(swResp.url)) =>
        /\ (swResp.hadEntry /\ swResp.at - swResp.entryStoredAt < CACHE_TTL.STATIC)
               => /\ ~swResp.fetched
                  /\ swResp.source = "cache"
                  /\ swResp.response.storedAt = swResp.entryStoredAt
        /\ swResp.fetched
               => \/ ~swResp.hadEntry
                  \/ swResp.at - swResp.entryStoredAt >= CACHE_TTL.STATIC

(***************************************************************************)
(* The service worker: fetch events for API requests and blog pages        *)
(* (network first, the cache when the network fails).                      *)
(***************************************************************************)

\* isImage: /\.(jpg|jpeg|png|gif|webp|svg|avif)$/i
isImage(url) == url.ext \in {"jpg", "jpeg", "png", "gif", "webp", "svg", "avif"}

\* isAPIRequest: url.pathname.startsWith("/api/")
isAPIRequest(url) == Len(url.path) >= 2 /\ url.path[1] = "api"

\* isBlogPage: url.pathname.startsWith("/blog") || url.pathname === "/", for
\* pathnames whose first segment is "blog" when it starts with "blog"
isBlogPage(url) == (Len(url.path) >= 1 /\ url.path[1] = "blog") \/ url.path = <<>>

ApiUrls == {apiPosts, apiCategories}

PageUrls == {rootPage, blogCategoryPage, blogPostPage}

SwApiTickStep == CACHE_TTL.API \div 2

MaxSwApiNow == StartTime + MaxSwTicks * SwApiTickStep

\* What a network-first handler has seen of the network: the fetch was made and
\* was rejected or not.
NetSeen(url, net) ==
    [handled |-> TRUE, url |-> url, at |-> now, fetched |-> TRUE,
     netFailed |-> net.kind = "error", threw |-> FALSE, cacheStatus |-> None,
     hadEntry |-> CachesMatch(url) # <<>>,
     entryStoredAt |-> IF CachesMatch(url) # <<>> THEN CachesMatch(url)[1].storedAt
                       ELSE 0]

\* The try block of handleAPIRequest and of handleBlogPage when fetch resolves:
\* an ok response is stored in the runtime cache, and the response is returned.
NetworkFirstResolved(url, net) ==
    LET networkResponse == [ok |-> net.ok, body |-> swFetches + 1,
                            cachedDate |-> net.cachedDate, storedAt |-> now]
    IN  /\ swCache' = IF networkResponse.ok
                      THEN CachePut(swCache, RUNTIME_CACHE_NAME, url, networkResponse)
                      ELSE swCache
        /\ swResp' = NetSeen(url, net) @@ [source |-> "network", defined |-> TRUE,
                                           response |-> networkResponse]

\* handleAPIRequest (lines 169-199)
handleAPIRequest(url, net) ==
    /\ swFetches' = swFetches + 1
    /\ IF net.kind # "error"
       THEN NetworkFirstResolved(url, net)
       ELSE LET cachedResponse == CachesMatch(url)
            IN  /\ swResp' = IF /\ cachedResponse # <<>>
                                /\ ~isExpired(cachedResponse[1], CACHE_TTL.API)
                             THEN [cacheStatus |-> "HIT"] @@ NetSeen(url, net) @@
                                  [source |-> "cache", defined |-> TRUE,
                                   response |-> cachedResponse[1]]
                             ELSE [threw |-> TRUE] @@ NetSeen(url, net) @@
                                  [source |-> None, defined |-> FALSE,
                                   response |-> NoResponse]
                /\ UNCHANGED swCache

\* a || b of JavaScript for a that is a Promise: an object, truthy whatever it
\* resolves to, so that the value is a.
PromiseOr(a, b) == a

\* handleBlogPage (lines 205-233).  The fallback is the promise of
\* caches.match("/offline.html"), which resolves to the response or to undefined.
handleBlogPage(url, net) ==
    /\ swFetches' = swFetches + 1
    /\ IF net.kind # "error"
       THEN NetworkFirstResolved(url, net)
       ELSE LET cachedResponse == CachesMatch(url)
                fallback == PromiseOr([source |-> "offline.html",
                                       resolved |-> CachesMatch(offlineHtml)],
                                      [source |-> "503",
                                       resolved |-> <<NoResponse>>])
            IN  /\ swResp' = IF cachedResponse # <<>>
                             THEN NetSeen(url, net) @@
                                  [source |-> "cache", defined |-> TRUE,
                                   response |-> cachedResponse[1]]
                             ELSE NetSeen(url, net) @@
                                  [source |-> fallback.source,
                                   defined |-> fallback.resolved # <<>>,
                                   response |-> IF fallback.resolved # <<>>
                                                THEN fallback.resolved[1]
                                                ELSE NoResponse]
                /\ UNCHANGED swCache

\* The fetch listener (lines 81-103) for a GET of an API request
FetchEventAPI(url, net) ==
    /\ swInstalled
    /\ ~isStaticAsset(url) /\ ~isImage(url) /\ isAPIRequest(url)
    /\ handleAPIRequest(url, net)
    /\ UNCHANGED swInstalled

\* The fetch listener (lines 81-103) for a GET of a blog page
FetchEventBlogPage(url, net) ==
    /\ swInstalled
    /\ ~isStaticAsset(url) /\ ~isImage(url) /\ ~isAPIRequest(url) /\ isBlogPage(url)
    /\ handleBlogPage(url, net)
    /\ UNCHANGED swInstalled

\* Date.now() moves on by half the TTL of API responses.
SwApiTick ==
    /\ now' = now + SwApiTickStep
    /\ UNCHANGED <<store, postsCache, lastFetchTime, loadingState, currentFilters,
                   currentPage, pending, calls, runs, mutations, lastResp,
                   missResp, delivered>>

SwApiNext ==
    \/ /\ \E allOk \in BOOLEAN, cachedDate \in ServerHeaders,
             preload \in {"not4g", "failed", "stored"} :
              SwInstall(allOk, cachedDate, preload)
       /\ UNCHANGED <<serviceVars, lastRead, filterIO, pageIO, uiVars, stageIO, catVars>>
    \/ /\ swFetches < MaxSwFetches
       /\ \E url \in ApiUrls, net \in NetworkOutcomes : FetchEventAPI(url, net)
       /\ UNCHANGED <<serviceVars, lastRead, filterIO, pageIO, uiVars, stageIO, catVars>>
    \/ /\ now + SwApiTickStep <= MaxSwApiNow
       /\ SwApiTick
       /\ UNCHANGED <<lastRead, filterIO, pageIO, uiVars, stageIO, catVars, swVars>>

SpecSWApi == Init /\ [][SwApiNext]_vars

SwPagesNext ==
    \/ /\ \E allOk \in BOOLEAN, cachedDate \in ServerHeaders,
             preload \in {"not4g", "failed", "stored"} :
              SwInstall(allOk, cachedDate, preload)
       /\ UNCHANGED <<serviceVars, lastRead, filterIO, pageIO, uiVars, stageIO, catVars>>
    \/ /\ swFetches < MaxSwFetches
       /\ \E url \in PageUrls, net \in NetworkOutcomes : FetchEventBlogPage(url, net)
       /\ UNCHANGED <<serviceVars, lastRead, filterIO, pageIO, uiVars, stageIO, catVars>>

SpecSWPages == Init /\ [][SwPagesNext]_vars

\* C21: service worker, API requests: when the network fetch of an /api/ GET fails
\* and a response for the request was cached by the worker less than 1 hour ago,
\* handleAPIRequest returns that cached response, marked X-Cache-Status: HIT; it
\* rethrows the network error only when no cached response exists or the cached
\* one is older than 1 hour.
C21_ApiFallsBackToFreshCache ==
    (swResp.handled /\ isAPIRequest(swResp.url) /\ swResp.netFailed) =>
        /\ (swResp.hadEntry /\ swResp.at - swResp.entryStoredAt < CACHE_TTL.API)
               => /\ ~swResp.threw
                  /\ swResp.source = "cache"
                  /\ swResp.cacheStatus = "HIT"
                  /\ swResp.response.storedAt = swResp.entryStoredAt
        /\ swResp.threw
               => \/ ~swResp.hadEntry
                  \/ swResp.at - swResp.entryStoredAt >= CACHE_TTL.API

\* C22: service worker, blog pages: when the network fetch of a blog page fails,
\* handleBlogPage resolves to a Response: the cached copy of the page if there is
\* one, else the cached /offline.html if there is one, else the 503 text
\* response; never to undefined.
C22_BlogPageAlwaysResponse ==
    (swResp.handled /\ isBlogPage(swResp.url) /\ swResp.netFailed) =>
        /\ swResp.defined
        /\ swResp.source = IF swResp.hadEntry THEN "cache"
                           ELSE IF CachesMatch(offlineHtml) # <<>> THEN "offline.html"
                           ELSE "503"

(***************************************************************************)
(* The two maps of the getPosts cache, the loading flag and the current    *)
(* page and filters of BlogService.                                        *)
(***************************************************************************)

\* C23: in every reachable state of BlogService the result map _postsCache and the
\* timestamp map _lastFetchTime have the same key set: a key judged valid by its
\* timestamp has a stored result, and no result is without a timestamp.
C23_CacheMapsHaveSameKeys ==
    /\ DOMAIN postsCache = DOMAIN lastFetchTime
    /\ \A cacheKey \in DOMAIN lastFetchTime :
           IsCacheValid(cacheKey) => cacheKey \in DOMAIN postsCache
    /\ \A cacheKey \in DOMAIN postsCache : cacheKey \in DOMAIN lastFetchTime

\* Two entries, one still valid and one past its TTL, both with a result.
C23_Witness ==
    \E k1, k2 \in DOMAIN lastFetchTime :
        /\ k1 # k2
        /\ IsCacheValid(k1)
        /\ ~IsCacheValid(k2)
        /\ k1 \in DOMAIN postsCache
        /\ k2 \in DOMAIN postsCache

\* The operations of BlogService that set the loading flag when called.
LoadingOps == {"getPosts", "searchPosts", "getPostById", "getPostBySlug"}

InFlight == { i \in 1..Len(pending) : pending[i].op \in LoadingOps }

\* C24: whenever at least one subscribed getPosts, searchPosts, getPostById or
\* getPostBySlug request is still in flight, loadingState.loading is true; loading
\* becomes false only when no such request remains, for every interleaving of
\* overlapping requests and cache hits.
C24_LoadingWhileInFlight ==
    InFlight # {} => loadingState.loading

\* C25: after a getPosts(page, pageSize, filters) call has delivered its response,
\* currentPage$ holds that page and currentFilters$ those filters, whether the
\* response was recomputed or served from the cache; resetFilters sets them to
\* page 1 and the empty filter object.
C25_CurrentPageAndFiltersFollow ==
    [][/\ lastResp' # lastResp
          => /\ currentPage' = lastResp'.page
             /\ currentFilters' = lastResp'.filters
       /\ (lastResp' = lastResp /\ <<currentPage, currentFilters>>' # <<currentPage, currentFilters>>)
          => /\ currentPage' = 1
             /\ currentFilters' = <<>>]_vars

(***************************************************************************)
(* BookmarkService (bookmark.service.ts) in the browser.  A bookmark is    *)
(* its postId and the set of its fields that have the type                 *)
(* isValidBookmarkItem asks for.                                           *)
(***************************************************************************)
MaxImport == 2

BookmarkPosts == {"post-1", "post-4"}

BookmarkFields == {"id", "postId", "title", "slug", "excerpt", "featuredImage",
                   "category", "tags", "author", "createdAt", "bookmarkedAt"}

\* postToBookmarkItem
postToBookmarkItem(post) == [postId |-> post, typed |-> BookmarkFields]

\* isValidBookmarkItem
isValidBookmarkItem(item) == item.typed = BookmarkFields

\* The values JSON.parse gives for the texts handed to importBookmarks: arrays of
\* at most MaxImport items, well formed or with a field missing; an object that is
\* no array; "error" for a text that is no JSON.
ImportedItems ==
    { [postId |-> post, typed |-> typed] :
          post \in BookmarkPosts, typed \in {BookmarkFields, BookmarkFields \ {"slug"}} }

ImportTexts ==
    {[kind |-> "error", items |-> <<>>], [kind |-> "object", items |-> <<>>]}
    \cup { [kind |-> "array", items |-> items] :
               items \in UNION { [1..n -> ImportedItems] : n \in 0..MaxImport } }

\* bookmarkIds
bookmarkIds == { bookmarks[i].postId : i \in 1..Len(bookmarks) }

\* bookmarkCount
bookmarkCount == Len(bookmarks)

\* isBookmarked
isBookmarked(postId) == postId \in bookmarkIds

\* saveBookmarks: setItem stores the list, or throws and the error is logged
\* (cleanOldBookmarks changes nothing for a list of at most 100).
saveBookmarks(list, stored) == IF stored THEN <<list>> ELSE bmStorage

\* addBookmark, seen from the operation op that calls it
AddBookmarkAs(op, post, stored, returned) ==
    IF isBookmarked(post)
    THEN /\ bmHist' = [op |-> op, returned |-> returned, removed |-> 0]
         /\ UNCHANGED <<bookmarks, bmStorage, bookmarkChanges>>
    ELSE /\ bookmarks' = <<postToBookmarkItem(post)>> \o bookmarks
         /\ bmStorage' = saveBookmarks(bookmarks', stored)
         /\ bookmarkChanges' = [action |-> "add", total |-> Len(bookmarks')]
         /\ bmHist' = [op |-> op, returned |-> returned, removed |-> 0]

\* removeBookmark, seen from the operation op that calls it
RemoveBookmarkAs(op, postId, stored, returned) ==
    IF \A i \in 1..Len(bookmarks) : bookmarks[i].postId # postId
    THEN /\ bmHist' = [op |-> op, returned |-> returned, removed |-> 0]
         /\ UNCHANGED <<bookmarks, bmStorage, bookmarkChanges>>
    ELSE LET filtered == SelectSeq(bookmarks, LAMBDA b : b.postId # postId)
         IN  /\ bookmarks' = filtered
             /\ bmStorage' = saveBookmarks(filtered, stored)
             /\ bookmarkChanges' = [action |-> "remove", total |-> Len(filtered)]
             /\ bmHist' = [op |-> op, returned |-> returned,
                           removed |-> Len(bookmarks) - Len(filtered)]

\* BookmarkService.addBookmark
AddBookmark(post, stored) ==
    AddBookmarkAs("addBookmark", post, stored, ~isBookmarked(post))

\* BookmarkService.removeBookmark
RemoveBookmark(postId, stored) ==
    RemoveBookmarkAs("removeBookmark", postId, stored, isBookmarked(postId))

\* BookmarkService.toggleBookmark
ToggleBookmark(post, stored) ==
    IF isBookmarked(post)
    THEN RemoveBookmarkAs("toggleBookmark", post, stored, FALSE)
    ELSE AddBookmarkAs("toggleBookmark", post, stored, TRUE)

\* BookmarkService.clearBookmarks
ClearBookmarks ==
    /\ bookmarks' = <<>>
    /\ bmStorage' = <<>>
    /\ bookmarkChanges' = [action |-> "clear", total |-> 0]
    /\ bmHist' = [op |-> "clearBookmarks", returned |-> TRUE, removed |-> Len(bookmarks)]

\* BookmarkService.importBookmarks
ImportBookmarks(parsed, stored) ==
    IF parsed.kind # "array"
    THEN /\ bmHist' = [op |-> "importBookmarks", returned |-> FALSE, removed |-> 0]
         /\ UNCHANGED <<bookmarks, bmStorage, bookmarkChanges>>
    ELSE LET validBookmarks == SelectSeq(parsed.items, isValidBookmarkItem)
         IN  /\ bookmarks' = validBookmarks
             /\ bmStorage' = saveBookmarks(validBookmarks, stored)
             /\ bookmarkChanges' = [action |-> "init", total |-> Len(validBookmarks)]
             /\ bmHist' = [op |-> "importBookmarks", returned |-> TRUE, removed |-> 0]

\* What the operations of BookmarkService leave alone.
notBookmarks == <<serviceVars, lastRead, filterIO, pageIO, stageIO, catVars, swVars,
                  voteVars, submitVars>>

BookmarksNext ==
    \/ /\ \E post \in BookmarkPosts, stored \in BOOLEAN : AddBookmark(post, stored)
       /\ UNCHANGED notBookmarks
    \/ /\ \E post \in BookmarkPosts, stored \in BOOLEAN : RemoveBookmark(post, stored)
       /\ UNCHANGED notBookmarks
    \/ /\ \E post \in BookmarkPosts, stored \in BOOLEAN : ToggleBookmark(post, stored)
       /\ UNCHANGED notBookmarks
    \/ /\ ClearBookmarks
       /\ UNCHANGED notBookmarks
    \/ /\ \E parsed \in ImportTexts, stored \in BOOLEAN : ImportBookmarks(parsed, stored)
       /\ UNCHANGED notBookmarks

SpecBookmarks == Init /\ [][BookmarksNext]_vars

\* C26: in BookmarkService, after any sequence of addBookmark, removeBookmark,
\* toggleBookmark, clearBookmarks and importBookmarks, no two bookmarks of the list
\* share a postId, so that bookmarkCount is the number of distinct bookmarked
\* posts and removeBookmark removes exactly one item.
C26_OneBookmarkPerPost ==
    /\ \A i, j \in 1..Len(bookmarks) :
           bookmarks[i].postId = bookmarks[j].postId => i = j
    /\ bookmarkCount = Cardinality(bookmarkIds)
    /\ (bmHist.op = "removeBookmark" /\ bmHist.returned) => bmHist.removed = 1

(***************************************************************************)
(* BlogCommentsComponent: the votes of the user on one comment.            *)
(* likesOfOthers and dislikesOfOthers are history: the counts without the  *)
(* vote of the user.                                                       *)
(***************************************************************************)
MaxVotes == 3
MaxLikeEvents == 3

Vote(flag) == IF flag THEN 1 ELSE 0

\* Comments with at most one of the flags set, likes >= 1 if liked and
\* dislikes >= 1 if disliked.
StartComments ==
    { [likes |-> l + Vote(liked), dislikes |-> d + Vote(disliked),
       isLikedByUser |-> liked, isDislikedByUser |-> disliked,
       likesOfOthers |-> l, dislikesOfOthers |-> d] :
          l \in 0..MaxVotes, d \in 0..MaxVotes,
          liked \in BOOLEAN, disliked \in {FALSE} }
    \cup
    { [likes |-> l, dislikes |-> d + 1,
       isLikedByUser |-> FALSE, isDislikedByUser |-> TRUE,
       likesOfOthers |-> l, dislikesOfOthers |-> d] :
          l \in 0..MaxVotes, d \in 0..MaxVotes }

VotesInit ==
    /\ ServiceInit
    /\ lastRead = NoRead
    /\ filterIO = None
    /\ pageIO = None
    /\ stageIO = None
    /\ CatInit
    /\ SwInit
    /\ BmInit
    /\ SubmitInit
    /\ commentLiked = <<>>
    /\ comment \in StartComments

\* Math.max(0, n)
MathMax0(n) == IF n > 0 THEN n ELSE 0

\* onToggleLike that leaves a dislike of the user in place.
OnToggleLikeKeepingDislike ==
    LET newLikedState == ~comment.isLikedByUser
    IN  /\ comment' = [comment EXCEPT
               !.isLikedByUser = newLikedState,
               !.likes = @ + (IF newLikedState THEN 1 ELSE -1)]
        /\ commentLiked' = Append(commentLiked, [liked |-> newLikedState])

\* BlogCommentsComponent.onToggleLike
OnToggleLike ==
    LET newLikedState == ~comment.isLikedByUser
        undisliked == IF comment.isDislikedByUser
                      THEN [comment EXCEPT !.isDislikedByUser = FALSE,
                                           !.dislikes = MathMax0(@ - 1)]
                      ELSE comment
    IN  /\ comment' = [undisliked EXCEPT
               !.isLikedByUser = newLikedState,
               !.likes = @ + (IF newLikedState THEN 1 ELSE -1)]
        /\ commentLiked' = Append(commentLiked, [liked |-> newLikedState])

\* BlogCommentsComponent.onToggleDislike
OnToggleDislike ==
    LET newDislikedState == ~comment.isDislikedByUser
        unliked == IF comment.isLikedByUser
                   THEN [comment EXCEPT !.isLikedByUser = FALSE,
                                        !.likes = MathMax0(@ - 1)]
                   ELSE comment
    IN  /\ comment' = [unliked EXCEPT
               !.isDislikedByUser = newDislikedState,
               !.dislikes = @ + (IF newDislikedState THEN 1 ELSE -1)]
        /\ UNCHANGED commentLiked

\* What the vote handlers leave alone.
notVotes == <<serviceVars, lastRead, filterIO, pageIO, stageIO, catVars, swVars,
              bmVars, submitVars>>

VotesNext ==
    \/ /\ Len(commentLiked) < MaxLikeEvents
       /\ OnToggleLike
       /\ UNCHANGED notVotes
    \/ /\ OnToggleDislike
       /\ UNCHANGED notVotes

SpecVotes == VotesInit /\ [][VotesNext]_vars

\* C27: for a comment that starts with at most one of isLikedByUser and
\* isDislikedByUser set, likes >= 1 if liked and dislikes >= 1 if disliked, every
\* sequence of onToggleLike and onToggleDislike keeps: the flags are never both
\* true, likes >= 0 and dislikes >= 0, and likes (dislikes) is above its value
\* without the vote of the user by 1 when the like (dislike) flag is true and by
\* 0 otherwise.
C27_VotesConsistent ==
    /\ ~(comment.isLikedByUser /\ comment.isDislikedByUser)
    /\ comment.likes >= 0
    /\ comment.dislikes >= 0
    /\ comment.likes = comment.likesOfOthers + Vote(comment.isLikedByUser)
    /\ comment.dislikes = comment.dislikesOfOthers + Vote(comment.isDislikedByUser)

\* The user liked, took the like back and liked again a comment that nobody else
\* voted on, with a dislike of the user given and replaced on the way.
C27_Witness ==
    /\ commentLiked = <<[liked |-> TRUE], [liked |-> FALSE], [liked |-> TRUE]>>
    /\ comment.isLikedByUser
    /\ comment.likes = 1
    /\ comment.dislikes = 0
    /\ comment.likesOfOthers = 0

(***************************************************************************)
(* BlogCommentsComponent: submitting a comment.  timers holds the          *)
(* callbacks waiting in setTimeout in the order they fire: loadComments    *)
(* (500 ms, set by ngOnInit) before every submission (1000 ms, set later). *)
(***************************************************************************)
MaxSubmits == 3
MaxRejected == 4

\* generateMockComments, the status of each comment
mockComments == <<[n |-> 0, status |-> "approved"], [n |-> 0, status |-> "approved"]>>

\* The user edits the form: it becomes valid or invalid.
FormEdit(valid) ==
    /\ formValid' = valid
    /\ UNCHANGED <<comments, submitting, timers, commentSubmitted, submitHist>>

\* onSubmitComment that looks at the form only.
OnSubmitCommentWhileSubmitting ==
    IF ~formValid
    THEN /\ submitHist' = [submitHist EXCEPT !.rejected = @ + 1,
                                             !.busy = @ + Vote(submitting),
                                             !.last = "rejected"]
         /\ UNCHANGED <<comments, submitting, formValid, timers, commentSubmitted>>
    ELSE /\ submitting' = TRUE
         /\ timers' = Append(timers, [kind |-> "submit", n |-> submitHist.accepted + 1])
         /\ submitHist' = [submitHist EXCEPT !.accepted = @ + 1, !.last = "accepted"]
         /\ UNCHANGED <<comments, formValid, commentSubmitted>>

\* BlogCommentsComponent.onSubmitComment, the call (lines 401-426)
OnSubmitComment ==
    IF ~formValid \/ submitting
    THEN /\ submitHist' = [submitHist EXCEPT !.rejected = @ + 1,
                                             !.busy = @ + Vote(submitting),
                                             !.last = "rejected"]
         /\ UNCHANGED <<comments, submitting, formValid, timers, commentSubmitted>>
    ELSE /\ submitting' = TRUE
         /\ timers' = Append(timers, [kind |-> "submit", n |-> submitHist.accepted + 1])
         /\ submitHist' = [submitHist EXCEPT !.accepted = @ + 1, !.last = "accepted"]
         /\ UNCHANGED <<comments, formValid, commentSubmitted>>

\* The callback of loadComments (lines 188-192)
LoadCommentsTimer ==
    /\ timers # <<>>
    /\ Head(timers).kind = "loadComments"
    /\ comments' = mockComments
    /\ timers' = Tail(timers)
    /\ UNCHANGED <<submitting, formValid, commentSubmitted, submitHist>>

\* The callback of onSubmitComment (lines 426-458); resetCommentForm empties the
\* form, whose required fields make it invalid.
SubmitTimer ==
    /\ timers # <<>>
    /\ Head(timers).kind = "submit"
    /\ comments' = Append(comments, [n |-> Head(timers).n, status |-> "pending"])
    /\ commentSubmitted' = Append(commentSubmitted, Head(timers).n)
    /\ formValid' = FALSE
    /\ submitting' = FALSE
    /\ timers' = Tail(timers)
    /\ UNCHANGED submitHist

\* What the handlers of the comment form leave alone.
notSubmit == <<serviceVars, lastRead, filterIO, pageIO, stageIO, catVars, swVars,
               bmVars, voteVars>>

SubmitNext ==
    \/ /\ \E valid \in BOOLEAN : FormEdit(valid)
       /\ UNCHANGED notSubmit
    \/ /\ submitHist.accepted < MaxSubmits
       /\ submitHist.rejected < MaxRejected
       /\ OnSubmitComment
       /\ UNCHANGED notSubmit
    \/ /\ LoadCommentsTimer
       /\ UNCHANGED notSubmit
    \/ /\ SubmitTimer
       /\ UNCHANGED notSubmit

SpecSubmit == Init /\ [][SubmitNext]_vars

SubmitsInFlight == { i \in 1..Len(timers) : timers[i].kind = "submit" }

PendingComments == SelectSeq(comments, LAMBDA c : c.status = "pending")

\* C28: in BlogCommentsComponent at most one comment submission is in flight at a
\* time: an onSubmitComment call made while submitting is true, or with an invalid
\* form, adds no comment and emits nothing, and every accepted call appends one
\* comment with status 'pending' and emits commentSubmitted once before submitting
\* returns to false.
C28_OneSubmissionAtATime ==
    [][/\ Cardinality(SubmitsInFlight') <= 1
       /\ submitting' <=> SubmitsInFlight' # {}
       /\ Len(commentSubmitted') = submitHist'.accepted - Cardinality(SubmitsInFlight')
       /\ [i \in 1..Len(PendingComments') |-> PendingComments'[i].n] = commentSubmitted'
       /\ submitHist'.rejected = submitHist.rejected + 1
              => /\ ~formValid \/ submitting
                 /\ UNCHANGED <<comments, commentSubmitted, timers, submitting>>
       /\ submitHist'.accepted = submitHist.accepted + 1
              => /\ formValid /\ ~submitting
                 /\ submitting'
                 /\ UNCHANGED <<comments, commentSubmitted>>
       /\ (submitting /\ ~submitting')
              => /\ Len(comments') = Len(comments) + 1
                 /\ SubSeq(comments', 1, Len(comments)) = comments
                 /\ comments'[Len(comments')].status = "pending"
                 /\ Len(commentSubmitted') = Len(commentSubmitted) + 1]_vars

\* Two comments have been submitted, one after the other, and a call made while
\* the first was being submitted was turned down.
C28_Witness ==
    /\ submitHist.accepted = 2
    /\ submitHist.busy >= 1
    /\ ~submitting
    /\ commentSubmitted = <<1, 2>>
    /\ Len(comments) = Len(mockComments) + 2

====
